---- MODULE Spec2Model ----
(***************************************************************************)
(* Model of the ComfyUI generation workflow of comfy-zkit-ui:              *)
(*   - services/comfyui.ts   : uploadImage, queuePrompt, waitForResult     *)
(*   - routes/generate.ts    : POST /upload, /cartoon, /watermark, alone   *)
(*                             and as concurrent requests                  *)
(*   - services/imageProcessor.ts : resizeImage, addWatermark              *)
(*   - routes/auth.ts, routes/config.ts, services/dataStore.ts :           *)
(*                             login, register, config under concurrency   *)
(*   - client/pages/Home.tsx : the seed controls and the cartoon request   *)
(* Time is counted in milliseconds.  The upstream service is the           *)
(* environment: every reply (its kind, its content, its latency) is a      *)
(* nondeterministic choice.                                                *)
(***************************************************************************)
EXTENDS Integers, Sequences, FiniteSets, TLC

VARIABLES
    \* ---- waitForResult (services/comfyui.ts:50-94) ----
    wpc,          \* position: "idle" | "call" | "history" | "nodes" | "view" | "sleep" | "returned" | "threw"
    clock,        \* Date.now()
    startTime,    \* const startTime
    timeout,      \* parameter timeout
    promptIdArg,  \* parameter promptId
    result,       \* the value waitForResult returned (NullBuffer or image bytes)
    outputs,      \* promptHistory.outputs of the reply being handled: per node the number of images
    nodeIdx,      \* position of the for-in loop over outputs
    \* ---- what the upstream service saw, and what happened so far ----
    nQueries,     \* number of GET /history requests issued
    queriedId,    \* prompt id of the last GET /history request
    viewed,       \* image references fetched by GET /view while handling the current reply
    lastKind,     \* kind of the last history reply
    lastReplyAt,  \* clock when the last history reply arrived
    lastView,     \* kind of the last GET /view reply for the current history reply (Null while none)
    logged,       \* console.error was called while handling the last history reply
    \* (the next three are recorded for direct calls of waitForResult, the last one
    \* for calls made by POST /cartoon)
    allInstant,   \* every upstream reply so far had latency 0
    allViewOk,    \* every GET /view so far returned success
    outputSeen,   \* some history reply so far contained a node with images
    failedSeen,   \* some history reply so far marked the job as failed
    \* ---- one HTTP request to the generate router (routes/generate.ts) ----
    rpc,          \* position of the route handler
    req,          \* the request
    response,     \* the response sent (NoResponse while none)
    responses,    \* number of responses sent
    files,        \* the files of the uploads directory: [name, bytes]
    nUpload,      \* number of POST /upload/image requests sent upstream
    nPrompt,      \* number of POST /prompt requests sent upstream
    nDownload,    \* number of fetch(imageUrl) downloads started
    uploadedName, \* const uploadedName
    promptImage,  \* inputs.image of the LoadImage node of the submitted job
    promptId,     \* const promptId
    callErr,      \* the upstream reply that made uploadImage or queuePrompt throw, and the error
    \* ---- services/imageProcessor.ts applied to a stored file ----
    resizedAgain, \* resizeImage of the file POST /upload stored (NullBuffer while not called)
    watermarked,  \* what a direct call of addWatermark returned (NullBuffer while not called)
    nRead,        \* number of fs.readFileSync calls of POST /watermark
    \* ---- the seed: client/pages/Home.tsx and the job graph of POST /cartoon ----
    seed,         \* const [seed, setSeed]
    seedLocked,   \* const [seedLocked, setSeedLocked]
    promptSeed,   \* inputs.seed of the KSampler node of the submitted job (<<>> while none)
    \* ---- routes/auth.ts, routes/config.ts, services/dataStore.ts ----
    users,        \* users.xlsx: the list of [id, username, password, role]
    config,       \* config.xlsx: key -> value
    areq,         \* per request: the request sent to /api/auth or /api/config
    apc,          \* per request: position of its handler
    auser,        \* per request: const user of POST /login (read before the await)
    aresp,        \* per request: the response (status 0 while none)
    nBootstrap,   \* number of first-login password updates performed
    \* ---- concurrent requests to the generate router (routes/generate.ts) ----
    creq,         \* per request: the request
    cpc,          \* per request: position of its handler
    cdisk,        \* per request: the files of the uploads directory when it arrived
    cread,        \* per request: what the handler read as its image
    cenv,         \* per request: what the environment did to it (IO results, upstream replies)
    cresp,        \* per request: the response (NoResponse while none)
    \* ---- the upstream service a request talks to (routes/generate.ts:105, 126) ----
    upstream,     \* normalizedUrl of the service POST /cartoon created ("" while none)
    \* ---- the local disk as POST /cartoon and POST /watermark use it ----
    diskRead,     \* the paths given to fs.readFileSync by the request of rpc
    \* ---- generation runs of the page (client/pages/Home.tsx:167-255) ----
    hpc,          \* per run of handleGenerate: its position ("none" before it starts)
    isGenerating, \* const [isGenerating, setIsGenerating]
    progress,     \* const [progress, setProgress]
    timers,       \* the runs whose progressInterval is set and not cleared
    currentProgress, \* per run: let currentProgress, in halves
    nRuns,        \* number of runs started
    \* ---- the overlays of addWatermark (services/imageProcessor.ts:48-107) ----
    composites    \* the image size and the overlays given to image.composite

pollVars == <<wpc, clock, startTime, timeout, promptIdArg, result, outputs, nodeIdx,
              nQueries, queriedId, viewed, lastKind, lastReplyAt, lastView, logged,
              allInstant, allViewOk, outputSeen, failedSeen>>
routeVars == <<rpc, req, response, responses, files, nUpload, nPrompt, nDownload,
               uploadedName, promptImage, promptId, callErr>>
imageVars == <<resizedAgain, watermarked, nRead>>
seedVars == <<seed, seedLocked, promptSeed>>
authVars == <<users, config, areq, apc, auser, aresp, nBootstrap>>
concVars == <<creq, cpc, cdisk, cread, cenv, cresp>>
pageVars == <<hpc, isGenerating, progress, timers, currentProgress, nRuns>>
moreVars == <<upstream, diskRead, pageVars, composites>>
otherVars == <<imageVars, seedVars, authVars, concVars, moreVars>>
vars == <<pollVars, routeVars, otherVars>>

Null == "null"
\* The null a Promise<Buffer | null> resolves to; a Buffer is a non-empty tuple.
NullBuffer == <<>>

\* ------------------------------------------------------------------ bounds
MaxTimeoutHalves == 6   \* timeouts tried: -1/2 .. MaxTimeoutHalves/2 poll intervals
MaxLatencyHalves == 1   \* reply latencies tried: 0 .. MaxLatencyHalves/2 poll intervals
MaxNodes == 2           \* output nodes in one history reply
MaxImages == 2          \* images of one output node
MaxRequests == 2        \* concurrent requests to the auth and config routers
MaxRuns == 2            \* generation runs started on the page
MaxTicks == 3           \* callbacks of one progress timer that change the progress

\* ------------------------------------------------------- program constants
pollInterval == 1000        \* comfyui.ts:52
CartoonTimeout == 180000    \* generate.ts:193

HalfInterval == pollInterval \div 2
Timeouts == {k * HalfInterval : k \in -1..MaxTimeoutHalves}
PromptIds == {"p1", "p2"}
\* Replies are instantaneous while a route handler is the caller (its timeout
\* of 180 s is fixed by the code; latencies are explored on direct calls).
DirectCall == rpc = "none"
Latencies == IF DirectCall THEN {k * HalfInterval : k \in 0..MaxLatencyHalves} ELSE {0}

\* ------------------------------------------------------- upstream replies
\* Sequences of length 0..n over S.
SeqUpTo(S, n) == UNION {[1..k -> S] : k \in 0..n}
\* promptHistory.outputs: the nodes in for-in order, each with its number of images
\* (a node without an `images` field and one with an empty array behave alike; a node
\* with images has MaxImages of them).
OutputSets == SeqUpTo({0, MaxImages}, MaxNodes)
\* A reply to GET /history/<id>:
\*   throw     fetch rejected (network error) or the body is not JSON
\*   notok     non-success status
\*   noentry   success, history[promptId] is undefined
\*   nooutputs success, the entry has no outputs field
\*   outputs   success, the entry has an outputs object
\* `failed` is the entry's status field (the job failed upstream); the code never reads it.
HistoryReplies ==
    {[kind |-> k, failed |-> FALSE, outputs |-> <<>>] : k \in {"throw", "notok", "noentry"}}
    \cup {[kind |-> "nooutputs", failed |-> f, outputs |-> <<>>] : f \in BOOLEAN}
    \cup {[kind |-> "outputs", failed |-> f, outputs |-> o] : f \in BOOLEAN, o \in OutputSets}
ViewReplies == {"ok", "notok", "throw"}

\* The image reference output.images[i] of node n, and the bytes GET /view serves for it.
ImageRef(n, i) == <<n, i>>
ViewBytes(ref) == <<"png", ref[1], ref[2]>>

\* -------------------------------------------------------- waitForResult
\* Mutant: the loop also runs when the elapsed time equals the timeout.
LoopGuard_Inclusive(now, start, tmo) == now - start <= tmo

\* comfyui.ts:54  while (Date.now() - startTime < timeout)
LoopGuard(now, start, tmo) == now - start < tmo

\* Mutant: the sleep lasts two intervals (a branch that sleeps and falls through to line 90).
SleepUntil_Twice(now, ms) == now + 2 * ms

\* comfyui.ts:103-105  sleep(ms)
SleepUntil(now, ms) == now + ms

\* comfyui.ts:75  output.images && output.images.length > 0
HasImages(n) == outputs[n] > 0

\* Mutant: the last image of the node is taken instead of the first.
FirstImage_Last(n) == ImageRef(n, outputs[n])

\* comfyui.ts:76  const image = output.images[0]
FirstImage(n) == ImageRef(n, 1)

\* The loop head (comfyui.ts:54, 93): the next history query is issued, or the loop
\* ends and waitForResult returns null.
LoopHead(now, start) ==
    IF LoopGuard(now, start, timeout)
    THEN /\ wpc' = "history"
         /\ nQueries' = nQueries + 1
         /\ queriedId' = promptIdArg
         /\ result' = result
    ELSE /\ wpc' = "returned"
         /\ result' = NullBuffer
         /\ UNCHANGED <<nQueries, queriedId>>

\* Mutant: no try/catch around the history query; a thrown error leaves waitForResult.
OnHistoryReply_NoCatch(k) ==
    CASE k = "throw"     -> [next |-> "threw", log |-> FALSE]
      [] k = "notok"     -> [next |-> "sleep", log |-> FALSE]
      [] k = "noentry"   -> [next |-> "sleep", log |-> FALSE]
      [] k = "nooutputs" -> [next |-> "sleep", log |-> FALSE]
      [] k = "outputs"   -> [next |-> "nodes", log |-> FALSE]

\* comfyui.ts:55-70, 86-88: what the loop body does with a history reply of kind k:
\* where it goes next and whether console.error is called.
OnHistoryReply(k) ==
    CASE k = "throw"     -> [next |-> "sleep", log |-> TRUE]     \* catch: console.error, then line 90
      [] k = "notok"     -> [next |-> "sleep", log |-> FALSE]    \* lines 57-60
      [] k = "noentry"   -> [next |-> "sleep", log |-> FALSE]    \* lines 66-70
      [] k = "nooutputs" -> [next |-> "sleep", log |-> FALSE]    \* lines 66-70
      [] k = "outputs"   -> [next |-> "nodes", log |-> FALSE]    \* line 73

\* Mutant: the body of a GET /view reply is returned without looking at its status.
OnViewReply_NoOkCheck(v) ==
    CASE v = "ok"    -> [next |-> "returned", log |-> FALSE]
      [] v = "notok" -> [next |-> "returned", log |-> FALSE]
      [] v = "throw" -> [next |-> "sleep", log |-> TRUE]

\* comfyui.ts:79-88: what the loop body does with a reply v to GET /view.
OnViewReply(v) ==
    CASE v = "ok"    -> [next |-> "returned", log |-> FALSE]     \* lines 80-83
      [] v = "notok" -> [next |-> "nodes", log |-> FALSE]        \* the for-in loop goes on
      [] v = "throw" -> [next |-> "sleep", log |-> TRUE]         \* catch, then line 90

\* comfyui.ts:50-54: the call; startTime is taken and the loop head is evaluated.
WaitForResultCall ==
    /\ wpc = "call"
    /\ startTime' = clock
    /\ LoopHead(clock, clock)
    /\ UNCHANGED <<clock, timeout, promptIdArg, outputs, nodeIdx, viewed, lastKind,
                   lastReplyAt, lastView, logged, allInstant, allViewOk, outputSeen, failedSeen>>
    /\ UNCHANGED routeVars
    /\ UNCHANGED otherVars

\* comfyui.ts:56-73: the reply to GET /history/<promptId> arrives.
HistoryReply ==
    /\ wpc = "history"
    /\ \E lat \in Latencies, r \in HistoryReplies :
         LET step == OnHistoryReply(r.kind) IN
         /\ clock' = clock + lat
         /\ wpc' = step.next
         /\ logged' = step.log
         /\ lastKind' = r.kind
         /\ lastReplyAt' = clock'
         /\ lastView' = Null
         /\ outputs' = r.outputs
         /\ nodeIdx' = 1
         /\ viewed' = <<>>
         /\ allInstant' = (allInstant /\ lat = 0)
         /\ outputSeen' = (outputSeen \/ (DirectCall /\ \E n \in DOMAIN r.outputs : r.outputs[n] > 0))
         /\ failedSeen' = (failedSeen \/ (~DirectCall /\ r.failed))
    /\ UNCHANGED <<startTime, timeout, promptIdArg, result, nQueries, queriedId, allViewOk>>
    /\ UNCHANGED routeVars
    /\ UNCHANGED otherVars

\* comfyui.ts:73-79: one step of the for-in loop over the output nodes; a node with
\* images has its first image requested from GET /view.
NextNode ==
    /\ wpc = "nodes"
    /\ IF nodeIdx > Len(outputs)
       THEN /\ wpc' = "sleep"                       \* loop over, line 90
            /\ UNCHANGED <<nodeIdx, viewed>>
       ELSE IF HasImages(nodeIdx)
       THEN /\ wpc' = "view"
            /\ viewed' = Append(viewed, FirstImage(nodeIdx))
            /\ UNCHANGED nodeIdx
       ELSE /\ nodeIdx' = nodeIdx + 1
            /\ UNCHANGED <<wpc, viewed>>
    /\ UNCHANGED <<clock, startTime, timeout, promptIdArg, result, outputs, nQueries,
                   queriedId, lastKind, lastReplyAt, lastView, logged, allInstant,
                   allViewOk, outputSeen, failedSeen>>
    /\ UNCHANGED routeVars
    /\ UNCHANGED otherVars

\* comfyui.ts:79-88: the reply to GET /view arrives.
ViewReply ==
    /\ wpc = "view"
    /\ \E lat \in Latencies, v \in ViewReplies :
         LET step == OnViewReply(v) IN
         /\ clock' = clock + lat
         /\ wpc' = step.next
         /\ logged' = (logged \/ step.log)
         /\ result' = IF step.next = "returned" THEN ViewBytes(viewed[Len(viewed)]) ELSE result
         /\ nodeIdx' = IF step.next = "nodes" THEN nodeIdx + 1 ELSE nodeIdx
         /\ allInstant' = (allInstant /\ lat = 0)
         /\ allViewOk' = (allViewOk /\ (v = "ok" \/ ~DirectCall))
         /\ lastView' = v
    /\ UNCHANGED <<startTime, timeout, promptIdArg, outputs, nQueries, queriedId, viewed,
                   lastKind, lastReplyAt, outputSeen, failedSeen>>
    /\ UNCHANGED routeVars
    /\ UNCHANGED otherVars

\* comfyui.ts:58, 68, 90 and 54: one poll interval passes, then the loop head.
Sleep ==
    /\ wpc = "sleep"
    /\ clock' = SleepUntil(clock, pollInterval)
    /\ LoopHead(clock', startTime)
    \* the locals of the loop body go out of scope
    /\ outputs' = <<>>
    /\ nodeIdx' = 1
    /\ viewed' = <<>>
    /\ lastView' = Null
    /\ UNCHANGED <<startTime, timeout, promptIdArg, lastKind, lastReplyAt, logged,
                   allInstant, allViewOk, outputSeen, failedSeen>>
    /\ UNCHANGED routeVars
    /\ UNCHANGED otherVars

Elapsed == clock - startTime

\* No call of waitForResult has been made yet.
PollIdle ==
    /\ clock = 0
    /\ startTime = 0
    /\ result = NullBuffer
    /\ outputs = <<>>
    /\ nodeIdx = 1
    /\ nQueries = 0
    /\ queriedId = Null
    /\ viewed = <<>>
    /\ lastKind = Null
    /\ lastReplyAt = 0
    /\ lastView = Null
    /\ logged = FALSE
    /\ allInstant = TRUE
    /\ allViewOk = TRUE
    /\ outputSeen = FALSE
    /\ failedSeen = FALSE


\* ------------------------------------------------------ services/imageProcessor.ts
\* A Buffer holding an image is <<"img", width, height, byte length>>; any other
\* Buffer is not an image (sharp rejects it).
MAX_DIMENSION == 2560       \* imageProcessor.ts:4
IsImage(buf) == Len(buf) = 4 /\ buf[1] = "img"
\* What a sharp call that throws leaves in place of a Buffer.
SharpError == <<"error">>
Max(a, b) == IF a >= b THEN a ELSE b
Min(a, b) == IF a <= b THEN a ELSE b

\* Mutant: rounds down.
Round_Floor(p, q) == p \div q

\* Math.round of the non-negative rational p/q.
Round(p, q) == (2 * p + q) \div (2 * q)

\* Mutant: the limit itself already counts as too large.
WithinLimit_Strict(width, height) == width < MAX_DIMENSION /\ height < MAX_DIMENSION

\* imageProcessor.ts:11: if (width <= MAX_DIMENSION && height <= MAX_DIMENSION)
WithinLimit(width, height) == width <= MAX_DIMENSION /\ height <= MAX_DIMENSION

\* Mutant: the larger of the two ratios.
Scale_Max(width, height) ==
    IF MAX_DIMENSION * height >= MAX_DIMENSION * width
    THEN <<MAX_DIMENSION, width>> ELSE <<MAX_DIMENSION, height>>

\* imageProcessor.ts:16: scale = Math.min(MAX/width, MAX/height), as the fraction
\* <<numerator, denominator>> (MAX/width <= MAX/height iff MAX*height <= MAX*width).
Scale(width, height) ==
    IF MAX_DIMENSION * height <= MAX_DIMENSION * width
    THEN <<MAX_DIMENSION, width>> ELSE <<MAX_DIMENSION, height>>

\* imageProcessor.ts:17-18: newWidth and newHeight.
ResizeTarget(width, height) ==
    LET scale == Scale(width, height)
    IN  <<Round(width * scale[1], scale[2]), Round(height * scale[1], scale[2])>>

\* imageProcessor.ts:7-23 resizeImage on an image; len is the byte length the PNG
\* encoder produces for the resized image.  sharp's resize() rejects a target
\* dimension that is not a positive integer: the call throws.
resizeImage(buf, len) ==
    LET width == buf[2]
        height == buf[3]
        target == ResizeTarget(width, height)
    IN  IF WithinLimit(width, height)
        THEN buf
        ELSE IF target[1] < 1 \/ target[2] < 1
        THEN SharpError
        ELSE <<"img", target[1], target[2], len>>

\* ------------------------------------------------------------ routes/generate.ts
\* Request fields: "" and <<>> stand for a field that is absent (or empty: falsy).
\* The uploads directory holds a.png when the request arrives.
ExistingFile == [name |-> "a.png", bytes |-> <<"img", 800, 600, 3>>]
InitialFiles == {ExistingFile}
LocalPaths == {"", "uploads/a.png", "uploads/gone.png"}
ImageUrls == {"", "/uploads/a.png", "/uploads/gone.png", "http://remote/x.png"}
UploadBuffers == {<<"img", 800, 600, 3>>, <<"img", 4000, 3000, 5>>, <<"garbage">>}
EncodedLengths == {4, 5}
NoRequest ==
    [route |-> "none", imageUrl |-> "", localPath |-> "", file |-> <<>>, imageBase64 |-> <<>>,
     textWatermark |-> "", qrContent |-> "", seed |-> <<>>, comfyuiUrl |-> ""]
CartoonRequests ==
    {[NoRequest EXCEPT !.route = "cartoon", !.imageUrl = u, !.localPath = l] :
        u \in ImageUrls, l \in LocalPaths}
UploadRequests ==
    {[NoRequest EXCEPT !.route = "upload", !.file = f, !.imageBase64 = b] :
        f \in UploadBuffers \cup {<<>>}, b \in UploadBuffers \cup {<<>>}}

\* Error messages (the source's texts are given in the comments).
MsgProvideImage == <<"provide an image">>          \* generate.ts:67,102  '请提供图片'
MsgCannotRead == <<"cannot read image">>           \* generate.ts:122     '无法读取图片'
MsgTimeout == <<"generation timed out, retry">>    \* generate.ts:196     '生成超时，请重试'
MsgUploadError == <<"upload failed">>              \* generate.ts:92      '上传图片失败'
PrefixUpload == "upload image failed: "            \* comfyui.ts:26       '上传图片失败: '
PrefixPrompt == "submit job failed: "              \* comfyui.ts:43       '提交任务失败: '
MsgWatermarkError == <<"watermark failed">>         \* generate.ts:268     '添加水印失败'
MsgENOENT == <<"ENOENT: no such file or directory">>
MsgEIO == <<"EIO: i/o error">>
MsgFetchFailed == <<"fetch failed">>

NoResponse == [status |-> 0, error |-> <<>>, url |-> "", localPath |-> "", resized |-> FALSE]
ErrorResponse(code, msg) ==
    [status |-> code, error |-> msg, url |-> "", localPath |-> "", resized |-> FALSE]
\* The answer naming a stored file: url is its public URL, localPath its path.
OkResponse(name, rs) ==
    [status |-> 200, error |-> <<>>, url |-> name, localPath |-> name, resized |-> rs]

\* Replies of the upstream service to POST /upload/image and POST /prompt.
StatusTexts == {"Bad Request", "Internal Server Error"}
UploadNames == {"input_x.png", "input_x (1).png"}
InputFilename == "input_x.png"                     \* generate.ts:129 `input_${nanoid()}.png`
CallReplies(values) ==
    {[kind |-> "throw", text |-> "ECONNREFUSED"]}
    \cup {[kind |-> "notok", text |-> t] : t \in StatusTexts}
    \cup {[kind |-> "ok", text |-> v] : v \in values}
NoCall == [stage |-> "none", reply |-> [kind |-> "none", text |-> ""], error |-> <<>>]
IoOutcomes == {"ok", "eio"}

\* Mutant: the status text is dropped from the error.
CallOutcome_NoStatusText(prefix, r) ==
    CASE r.kind = "throw" -> [threw |-> TRUE, error |-> <<r.text>>, value |-> Null]
      [] r.kind = "notok" -> [threw |-> TRUE, error |-> <<prefix>>, value |-> Null]
      [] r.kind = "ok"    -> [threw |-> FALSE, error |-> <<>>, value |-> r.text]

\* comfyui.ts:20-30 and 34-47: uploadImage and queuePrompt on the upstream reply r:
\* a rejected fetch throws its own error, a non-success status throws
\* Error(prefix + statusText), a success returns result.name / result.prompt_id.
CallOutcome(prefix, r) ==
    CASE r.kind = "throw" -> [threw |-> TRUE, error |-> <<r.text>>, value |-> Null]
      [] r.kind = "notok" -> [threw |-> TRUE, error |-> <<prefix, r.text>>, value |-> Null]
      [] r.kind = "ok"    -> [threw |-> FALSE, error |-> <<>>, value |-> r.text]

\* generate.ts:213-218: the catch block of POST /cartoon (every thrown value is an Error).
CatchResponse(err) == ErrorResponse(500, err)

\* Values Math.floor(Math.random() * 2147483647) takes.
RandomSeeds == {0, 12345}
\* The values the server draws: when the request carries no seed every drawn value
\* plays the same part, and one stands for all.
ServerRandoms(s) == IF s = <<>> THEN {12345} ELSE RandomSeeds
\* generate.ts:166: "seed": seed || Math.floor(Math.random() * 2147483647), for the
\* seed field s of the request (<<>> absent, <<n>> the number n) and the drawn rnd.
SamplerSeed(s, rnd) == IF s = <<>> \/ s = <<0>> THEN rnd ELSE s[1]

\* Mutant: the job graph's LoadImage node gets the local file name.
LoadImageName_Local(uploaded, filename) == filename

\* generate.ts:138-139: inputs.image of the LoadImage node of the job graph.
LoadImageName(uploaded, filename) == uploaded

\* generate.ts:195-202: the result is saved only when waitForResult returned a Buffer.
SavesResult(buf) == buf # NullBuffer

\* fs.existsSync(localPath), and the file a path or an /uploads/ URL names.
FileNamed(n) == {f \in files : f.name = n}
\* path.basename, over the paths tried.
BaseName(path) ==
    CASE path \in {"uploads/a.png", "/uploads/a.png"} -> "a.png"
      [] path \in {"uploads/gone.png", "/uploads/gone.png"} -> "gone.png"
      [] path \in {"data/users.xlsx", "/uploads/../data/users.xlsx"} -> "users.xlsx"
      [] OTHER -> ""
\* A file of the server outside the uploads directory: the user store
\* (dataStore.ts:17), which is not an image.
OutsideFile == [name |-> "data/users.xlsx", bytes |-> <<"xlsx">>]
\* The file at a path of the local disk: the outside file, or a file of the uploads
\* directory.
FilesAtPath(path) == IF path = OutsideFile.name THEN {OutsideFile} ELSE FileNamed(BaseName(path))
ExistsSync(path) == FilesAtPath(path) # {}
StartsWithUploads(url) ==
    url \in {"/uploads/a.png", "/uploads/gone.png", "/uploads/../data/users.xlsx"}
\* path.join(uploadsDir, filename)
LocalPathOf(name) == "uploads/" \o name

\* Mutant: the handler goes on after answering.
Respond_NoReturn(r) ==
    /\ response' = r
    /\ responses' = responses + 1
    /\ rpc' = rpc

\* The route answers: one response, the handler ends.
Respond(r) ==
    /\ response' = r
    /\ responses' = responses + 1
    /\ rpc' = "done"

\* Mutant: a request without an image is treated as an empty upload.
UploadInput_NoValidation(r) ==
    IF r.file # <<>> THEN r.file
    ELSE IF r.imageBase64 # <<>> THEN r.imageBase64
    ELSE <<"garbage">>

\* generate.ts:59-68: the image of POST /upload: the multipart file, else the decoded
\* imageBase64 field, else none (<<>>), which is answered 400.
UploadInput(r) ==
    IF r.file # <<>> THEN r.file
    ELSE IF r.imageBase64 # <<>> THEN r.imageBase64
    ELSE <<>>

\* generate.ts:57-94: POST /upload.
PostUpload ==
    /\ rpc = "received" /\ req.route = "upload"
    /\ LET imageBuffer == UploadInput(req) IN
       \E len \in EncodedLengths, io \in IoOutcomes :
         IF imageBuffer = <<>>
         THEN /\ Respond(ErrorResponse(400, MsgProvideImage))
              /\ UNCHANGED files
         ELSE IF ~IsImage(imageBuffer)
         THEN /\ Respond(ErrorResponse(500, MsgUploadError))   \* sharp throws; catch
              /\ UNCHANGED files
         ELSE LET resizedBuffer == resizeImage(imageBuffer, len) IN
              IF resizedBuffer = SharpError \/ io = "eio"
              THEN /\ Respond(ErrorResponse(500, MsgUploadError)) \* resize or writeFileSync throws; catch
                   /\ UNCHANGED files
              ELSE /\ files' = files \cup {[name |-> "upload_1.png", bytes |-> resizedBuffer]}
                   /\ Respond(OkResponse("upload_1.png", imageBuffer[4] # resizedBuffer[4]))
    /\ UNCHANGED <<nUpload, nPrompt, nDownload, uploadedName, promptImage, promptId, callErr, req>>
    /\ UNCHANGED pollVars
    /\ UNCHANGED otherVars

\* generate.ts:101: if (!imageUrl && !localPath)
CartoonMissingInput(r) == r.imageUrl = "" /\ r.localPath = ""

\* generate.ts:107-123: how POST /cartoon gets its image:
\*   "file"     fs.readFileSync of an existing file
\*   "enoent"   fs.readFileSync of a missing file (throws)
\*   "download" fetch(imageUrl)
\*   "none"     answered 400
ImageSource(r) ==
    IF r.localPath # "" /\ ExistsSync(r.localPath) THEN "file"
    ELSE IF r.imageUrl # ""
    THEN IF StartsWithUploads(r.imageUrl)
         THEN IF ExistsSync(r.imageUrl) THEN "file" ELSE "enoent"
         ELSE "download"
    ELSE "none"

\* generate.ts:109-115, 232-237: the path given to fs.readFileSync when the image
\* comes from the local disk.
ReadPath(r) ==
    IF r.localPath # "" /\ ExistsSync(r.localPath) THEN r.localPath
    ELSE LocalPathOf(BaseName(r.imageUrl))

\* The config key of the upstream address, and the address used when none is given.
ConfigKey == "comfyuiUrl"
DefaultUrl == "http://127.0.0.1:8188"               \* generate.ts:105
\* dataStore.ts:128-132 getConfigValue: the stored value, or none ("", falsy as
\* undefined is).
getConfigValue(cfg, key) == IF key \in DOMAIN cfg THEN cfg[key] ELSE ""

\* Mutant: the stored value wins over the value of the request.
EffectiveUrl_ConfigFirst(requested, stored) ==
    IF stored # "" THEN stored ELSE IF requested # "" THEN requested ELSE DefaultUrl

\* generate.ts:105: comfyuiUrl || getConfigValue('comfyuiUrl') || 'http://127.0.0.1:8188'
EffectiveUrl(requested, stored) ==
    IF requested # "" THEN requested ELSE IF stored # "" THEN stored ELSE DefaultUrl

\* comfyui.ts:11: baseUrl.replace(/\/$/, ''): one trailing slash is dropped (over the
\* addresses tried).
NormalizeUrl(url) ==
    CASE url = "http://gpu:8188/" -> "http://gpu:8188"
      [] url = "http://other:8188/" -> "http://other:8188"
      [] OTHER -> url

\* generate.ts:97-129: POST /cartoon up to the upload call.
PostCartoon ==
    /\ rpc = "received" /\ req.route = "cartoon"
    /\ \E io \in IoOutcomes :
         IF CartoonMissingInput(req)
         THEN /\ Respond(ErrorResponse(400, MsgProvideImage))
              /\ UNCHANGED <<nUpload, nDownload>>
         ELSE LET src == ImageSource(req) IN
              IF src = "none"
              THEN /\ Respond(ErrorResponse(400, MsgCannotRead))
                   /\ UNCHANGED <<nUpload, nDownload>>
              ELSE IF src = "enoent" \/ io = "eio"
              THEN /\ Respond(CatchResponse(IF src = "enoent" THEN MsgENOENT
                                            ELSE IF src = "download" THEN MsgFetchFailed
                                            ELSE MsgEIO))
                   /\ nDownload' = nDownload + (IF src = "download" THEN 1 ELSE 0)
                   /\ UNCHANGED nUpload
              ELSE /\ rpc' = "upload"                 \* comfyui.uploadImage is called
                   /\ nUpload' = nUpload + 1
                   /\ nDownload' = nDownload + (IF src = "download" THEN 1 ELSE 0)
                   /\ UNCHANGED <<response, responses>>
    /\ diskRead' = IF ~CartoonMissingInput(req) /\ ImageSource(req) \in {"file", "enoent"}
                   THEN diskRead \cup {ReadPath(req)} ELSE diskRead
    \* lines 105, 126: the service is created once the image was read
    /\ upstream' = IF rpc' = "upload"
                   THEN NormalizeUrl(EffectiveUrl(req.comfyuiUrl, getConfigValue(config, ConfigKey)))
                   ELSE upstream
    /\ UNCHANGED <<files, nPrompt, uploadedName, promptImage, promptId, callErr, req>>
    /\ UNCHANGED pollVars
    /\ UNCHANGED <<imageVars, seedVars, authVars, concVars, pageVars, composites>>

\* generate.ts:129-132, comfyui.ts:25-30: the reply to POST /upload/image arrives.
UploadImageReply ==
    /\ rpc = "upload"
    /\ \E r \in CallReplies(UploadNames), rnd \in ServerRandoms(req.seed) :
         LET out == CallOutcome(PrefixUpload, r) IN
         IF out.threw
         THEN /\ callErr' = [stage |-> "upload", reply |-> r, error |-> out.error]
              /\ Respond(CatchResponse(out.error))
              /\ UNCHANGED <<uploadedName, promptImage, nPrompt, promptSeed>>
         ELSE /\ uploadedName' = out.value
              /\ promptImage' = LoadImageName(out.value, InputFilename)
              /\ promptSeed' = <<SamplerSeed(req.seed, rnd)>>
              /\ nPrompt' = nPrompt + 1               \* comfyui.queuePrompt is called
              /\ rpc' = "prompt"
              /\ UNCHANGED <<callErr, response, responses>>
    /\ UNCHANGED <<files, nUpload, nDownload, promptId, req>>
    /\ UNCHANGED pollVars
    /\ UNCHANGED <<imageVars, seed, seedLocked, authVars, concVars, moreVars>>

\* generate.ts:132-193, comfyui.ts:42-47: the reply to POST /prompt arrives.
QueuePromptReply ==
    /\ rpc = "prompt"
    /\ \E r \in CallReplies(PromptIds) :
         LET out == CallOutcome(PrefixPrompt, r) IN
         IF out.threw
         THEN /\ callErr' = [stage |-> "prompt", reply |-> r, error |-> out.error]
              /\ Respond(CatchResponse(out.error))
              /\ UNCHANGED <<promptId, wpc, timeout, promptIdArg>>
         ELSE /\ promptId' = out.value
              /\ wpc' = "call"                        \* comfyui.waitForResult(promptId, 180000)
              /\ promptIdArg' = out.value
              /\ timeout' = CartoonTimeout
              /\ rpc' = "wait"
              /\ UNCHANGED <<callErr, response, responses>>
    /\ UNCHANGED <<files, nUpload, nPrompt, nDownload, uploadedName, promptImage, req>>
    /\ UNCHANGED <<clock, startTime, result, outputs, nodeIdx, nQueries, queriedId, viewed,
                   lastKind, lastReplyAt, lastView, logged, allInstant, allViewOk,
                   outputSeen, failedSeen>>
    /\ UNCHANGED otherVars

\* generate.ts:193-218: waitForResult is over; the result is saved and answered.
CartoonResult ==
    /\ rpc = "wait" /\ wpc \in {"returned", "threw"}
    /\ \E io \in IoOutcomes :
         IF wpc = "threw"
         THEN /\ Respond(CatchResponse(<<"poll error">>))
              /\ UNCHANGED files
         ELSE IF ~SavesResult(result)
         THEN /\ Respond(ErrorResponse(500, MsgTimeout))
              /\ UNCHANGED files
         ELSE IF io = "eio"
         THEN /\ Respond(CatchResponse(MsgEIO))        \* writeFileSync throws
              /\ UNCHANGED files
         ELSE /\ files' = files \cup {[name |-> "cartoon_1.png", bytes |-> result]}
              /\ Respond(OkResponse("cartoon_1.png", FALSE))
    /\ UNCHANGED <<nUpload, nPrompt, nDownload, uploadedName, promptImage, promptId, callErr, req>>
    /\ UNCHANGED pollVars
    /\ UNCHANGED otherVars

\* ------------------------------------- routes/auth.ts, routes/config.ts, dataStore.ts
Procs == 1..MaxRequests
\* dataStore.ts:39: the hash the default admin is created with, and bcrypt: hash(p)
\* is <<"bcrypt", p>> (the salt is left out), compare(p, h) is h = hash(p).
PlaceholderHash == <<"placeholder">>
BcryptHash(pw) == <<"bcrypt", pw>>
BcryptCompare(pw, hash) == hash = BcryptHash(pw)
\* auth.ts:53: user.password.startsWith('$2a$10$rQnM1')
IsPlaceholder(hash) == hash = PlaceholderHash

AdminUser(hash) == [id |-> 1, username |-> "admin", password |-> hash, role |-> "admin"]
\* The store as created (dataStore.ts:35-43), and a store in use: the admin has logged
\* in with "p" and has registered bob.
FreshUsers == <<AdminUser(PlaceholderHash)>>
SettledUsers ==
    <<AdminUser(BcryptHash("p")),
      [id |-> 2, username |-> "bob", password |-> BcryptHash("b"), role |-> "user"]>>
DefaultConfig == [k \in {ConfigKey} |-> DefaultUrl]    \* dataStore.ts:46-50

\* Bearer tokens: none, one jwt.verify rejects, and valid ones for a user id.
NoToken == [kind |-> "none", userId |-> 0]
BadToken == [kind |-> "invalid", userId |-> 0]
ValidToken(id) == [kind |-> "valid", userId |-> id]
TokenUserIds == {1, 2, 3}
Tokens == {NoToken, BadToken} \cup {ValidToken(id) : id \in TokenUserIds}
AdminToken == ValidToken(1)

NoAuthRequest ==
    [route |-> "none", token |-> NoToken, username |-> "", password |-> "", role |-> "",
     key |-> "", value |-> ""]
LoginRequests ==
    {[NoAuthRequest EXCEPT !.route = "login", !.username = u[1], !.password = u[2]] :
        u \in {<<"admin", "p">>, <<"admin", "q">>, <<"bob", "b">>, <<"nobody", "p">>,
               <<"admin", "">>}}
RegisterRequests ==
    {[NoAuthRequest EXCEPT !.route = "register", !.token = t, !.username = "carol",
                           !.password = "c", !.role = "admin"] : t \in Tokens}
    \cup {[NoAuthRequest EXCEPT !.route = "register", !.token = AdminToken, !.username = u[1],
                               !.password = u[2], !.role = u[3]] :
             u \in {<<"carol", "c", "">>, <<"bob", "c", "">>, <<"carol", "", "">>}}
ConfigRequests ==
    {[NoAuthRequest EXCEPT !.route = "config", !.token = t, !.key = ConfigKey,
                           !.value = "http://other:8188"] : t \in Tokens}
    \cup {[NoAuthRequest EXCEPT !.route = "config", !.token = AdminToken]}
AuthRequests == LoginRequests \cup RegisterRequests \cup ConfigRequests

NoUser == [id |-> 0, username |-> "", password |-> <<>>, role |-> ""]
NoAuthResponse == [status |-> 0, userId |-> 0]
AuthResponse(code) == [status |-> code, userId |-> 0]
\* auth.ts:64-77: the answer of a successful login carries a token for user.id.
TokenResponse(id) == [status |-> 200, userId |-> id]

\* dataStore.ts:87-95: getUserByUsername and getUserById: users.find, the first match,
\* else NoUser.
FirstIndex(idx) == CHOOSE i \in idx : \A j \in idx : i <= j
getUserByUsername(us, name) ==
    LET idx == {i \in 1..Len(us) : us[i].username = name}
    IN  IF idx = {} THEN NoUser ELSE us[FirstIndex(idx)]
getUserById(us, id) ==
    LET idx == {i \in 1..Len(us) : us[i].id = id}
    IN  IF idx = {} THEN NoUser ELSE us[FirstIndex(idx)]

\* dataStore.ts:109-116: updateUser(id, { password }) rewrites the first user with the id.
updateUser(us, id, hash) ==
    LET idx == {i \in 1..Len(us) : us[i].id = id}
    IN  IF idx = {} THEN us ELSE [us EXCEPT ![FirstIndex(idx)].password = hash]

\* dataStore.ts:97-107: createUser appends a user with id max + 1.
MaxId(us) == IF Len(us) = 0 THEN 0 ELSE CHOOSE m \in {us[i].id : i \in 1..Len(us)} :
                                           \A i \in 1..Len(us) : us[i].id <= m
createUser(us, name, hash, role) ==
    Append(us, [id |-> MaxId(us) + 1, username |-> name, password |-> hash, role |-> role])

\* Mutant: every authenticated user counts as an administrator.
IsAdmin_Any(user) == TRUE

\* auth.ts:32: req.user?.role !== 'admin'
IsAdmin(user) == user.role = "admin"

\* auth.ts:10-36: authMiddleware and adminMiddleware on a token: the status they
\* answer with, or 0 when the request is passed on to the handler.
Gate(token, us) ==
    IF token.kind = "none" THEN 401
    ELSE IF token.kind = "invalid" THEN 401
    ELSE IF getUserById(us, token.userId) = NoUser THEN 401
    ELSE IF ~IsAdmin(getUserById(us, token.userId)) THEN 403
    ELSE 0

AuthRespond(p, r) ==
    /\ aresp' = [aresp EXCEPT ![p] = r]
    /\ apc' = [apc EXCEPT ![p] = "done"]

\* auth.ts:39-58: POST /login up to its await (bcrypt.hash or bcrypt.compare).
LoginReceived(p) ==
    /\ apc[p] = "received" /\ areq[p].route = "login"
    /\ LET r == areq[p]
           user == getUserByUsername(users, r.username)
       IN  IF r.username = "" \/ r.password = ""
           THEN AuthRespond(p, AuthResponse(400)) /\ UNCHANGED auser
           ELSE IF user = NoUser
           THEN AuthRespond(p, AuthResponse(401)) /\ UNCHANGED auser
           ELSE /\ auser' = [auser EXCEPT ![p] = user]
                /\ apc' = [apc EXCEPT ![p] =
                              IF user.username = "admin" /\ IsPlaceholder(user.password)
                              THEN "hashing" ELSE "comparing"]
                /\ UNCHANGED aresp
    /\ UNCHANGED <<users, config, areq, nBootstrap>>
    /\ UNCHANGED <<pollVars, routeVars, imageVars, seedVars, concVars, moreVars>>

\* auth.ts:55-56, 64-77: bcrypt.hash resolved: the password of the first login is
\* stored, and the login is answered with a token.
LoginBootstrap(p) ==
    /\ apc[p] = "hashing" /\ areq[p].route = "login"
    /\ users' = updateUser(users, auser[p].id, BcryptHash(areq[p].password))
    /\ nBootstrap' = nBootstrap + 1
    /\ AuthRespond(p, TokenResponse(auser[p].id))
    /\ UNCHANGED <<config, areq, auser>>
    /\ UNCHANGED <<pollVars, routeVars, imageVars, seedVars, concVars, moreVars>>

\* auth.ts:58-77: bcrypt.compare resolved.
LoginCompared(p) ==
    /\ apc[p] = "comparing"
    /\ IF BcryptCompare(areq[p].password, auser[p].password)
       THEN AuthRespond(p, TokenResponse(auser[p].id))
       ELSE AuthRespond(p, AuthResponse(401))
    /\ UNCHANGED <<users, config, areq, auser, nBootstrap>>
    /\ UNCHANGED <<pollVars, routeVars, imageVars, seedVars, concVars, moreVars>>

\* auth.ts:81-94: POST /register up to its await (bcrypt.hash).
RegisterReceived(p) ==
    /\ apc[p] = "received" /\ areq[p].route = "register"
    /\ LET r == areq[p]
           gate == Gate(r.token, users)
       IN  IF gate # 0 THEN AuthRespond(p, AuthResponse(gate))
           ELSE IF r.username = "" \/ r.password = "" THEN AuthRespond(p, AuthResponse(400))
           ELSE IF getUserByUsername(users, r.username) # NoUser
           THEN AuthRespond(p, AuthResponse(400))
           ELSE apc' = [apc EXCEPT ![p] = "hashing"] /\ UNCHANGED aresp
    /\ UNCHANGED <<users, config, areq, auser, nBootstrap>>
    /\ UNCHANGED <<pollVars, routeVars, imageVars, seedVars, concVars, moreVars>>

\* auth.ts:94-108: bcrypt.hash resolved: the user is created.
RegisterHashed(p) ==
    /\ apc[p] = "hashing" /\ areq[p].route = "register"
    /\ users' = createUser(users, areq[p].username, BcryptHash(areq[p].password),
                           IF areq[p].role = "" THEN "user" ELSE areq[p].role)
    /\ AuthRespond(p, AuthResponse(200))
    /\ UNCHANGED <<config, areq, auser, nBootstrap>>
    /\ UNCHANGED <<pollVars, routeVars, imageVars, seedVars, concVars, moreVars>>

\* routes/config.ts:20-34: POST /api/config.
PostConfig(p) ==
    /\ apc[p] = "received" /\ areq[p].route = "config"
    /\ LET r == areq[p]
           gate == Gate(r.token, users)
       IN  IF gate # 0 THEN AuthRespond(p, AuthResponse(gate)) /\ UNCHANGED config
           ELSE IF r.key = "" THEN AuthRespond(p, AuthResponse(400)) /\ UNCHANGED config
           ELSE /\ config' = [config EXCEPT ![r.key] = r.value]
                /\ AuthRespond(p, AuthResponse(200))
    /\ UNCHANGED <<users, areq, auser, nBootstrap>>
    /\ UNCHANGED <<pollVars, routeVars, imageVars, seedVars, concVars, moreVars>>

\* No request to the auth and config routers.
AuthIdle ==
    /\ users = FreshUsers
    /\ config = DefaultConfig
    /\ areq = <<>>
    /\ apc = <<>>
    /\ auser = <<>>
    /\ aresp = <<>>
    /\ nBootstrap = 0

NoRead == [src |-> "none", bytes |-> <<>>]
\* What the environment can do to one request.
NoReply == [kind |-> "none", text |-> ""]
NoEnv == [io |-> "ok", up |-> NoReply, pr |-> NoReply, res |-> NullBuffer, len |-> 0, io2 |-> "ok"]
\* No concurrent requests to the generate router.
ConcIdle ==
    /\ creq = <<>>
    /\ cpc = <<>>
    /\ cdisk = <<>>
    /\ cread = <<>>
    /\ cenv = <<>>
    /\ cresp = <<>>

\* No service was created.
\* image.composite was not called.
NoComposites == [width |-> 0, height |-> 0, overlays |-> <<>>]
ServiceIdle == upstream = "" /\ diskRead = {} /\ composites = NoComposites
\* The page is not open.
PageIdle ==
    /\ hpc = <<>>
    /\ isGenerating = FALSE
    /\ progress = 0
    /\ timers = {}
    /\ currentProgress = <<>>
    /\ nRuns = 0
MoreIdle == ServiceIdle /\ PageIdle

\* Nothing but the generate router is running.
OtherIdle ==
    /\ resizedAgain = NullBuffer
    /\ watermarked = NullBuffer
    /\ nRead = 0
    /\ seed = 0
    /\ seedLocked = FALSE
    /\ promptSeed = <<>>
    /\ AuthIdle
    /\ ConcIdle
    /\ MoreIdle

InitRoute ==
    /\ rpc = "received"
    /\ req \in CartoonRequests \cup UploadRequests
    /\ response = NoResponse
    /\ responses = 0
    /\ files = InitialFiles
    /\ nUpload = 0
    /\ nPrompt = 0
    /\ nDownload = 0
    /\ uploadedName = Null
    /\ promptImage = Null
    /\ promptId = Null
    /\ callErr = NoCall
    /\ wpc = "idle"
    /\ timeout = 0
    /\ promptIdArg = Null
    /\ PollIdle
    /\ OtherIdle

Next ==
    \/ PostUpload \/ PostCartoon \/ UploadImageReply \/ QueuePromptReply \/ CartoonResult
    \/ WaitForResultCall \/ HistoryReply \/ NextNode \/ ViewReply \/ Sleep

Spec == InitRoute /\ [][Next]_vars

\* ------------------------------------------------ waitForResult called directly
NoRoute ==
    /\ rpc = "none"
    /\ req = NoRequest
    /\ response = NoResponse
    /\ responses = 0
    /\ files = InitialFiles
    /\ nUpload = 0
    /\ nPrompt = 0
    /\ nDownload = 0
    /\ uploadedName = Null
    /\ promptImage = Null
    /\ promptId = Null
    /\ callErr = NoCall
    /\ OtherIdle

InitPoll ==
    /\ wpc = "call"
    /\ timeout \in Timeouts
    /\ promptIdArg \in PromptIds
    /\ PollIdle
    /\ NoRoute

NextPoll == WaitForResultCall \/ HistoryReply \/ NextNode \/ ViewReply \/ Sleep

SpecPoll == InitPoll /\ [][NextPoll]_vars

\* Every upstream call completes and the timers fire: the steps of waitForResult are
\* taken as long as one is possible.
LiveSpecPoll == SpecPoll /\ WF_vars(NextPoll)

\* ------------------------------------------------ resizeImage over image sizes
\* Widths and heights tried: the smallest ones, around MAX_DIMENSION, and beyond.
Dimensions == {1, 2, 3, 1920, 2559, 2560, 2561, 3000, 3001, 4000, 5120, 5121}
TestImages == {<<"img", w, h, 3>> : w, h \in Dimensions}
ImageRequests == {[NoRequest EXCEPT !.route = "upload", !.file = f] : f \in TestImages}
StoredUpload == FileNamed("upload_1.png")

\* imageProcessor.ts:7-23: resizeImage is called once more, on the bytes POST /upload
\* stored (the output of the first call).
ResizeStored ==
    /\ rpc = "done" /\ StoredUpload # {} /\ resizedAgain = NullBuffer
    /\ \E f \in StoredUpload, len \in EncodedLengths :
         resizedAgain' = resizeImage(f.bytes, len)
    /\ UNCHANGED <<pollVars, routeVars, watermarked, nRead, seedVars, authVars, concVars, moreVars>>

InitImage ==
    /\ rpc = "received"
    /\ req \in ImageRequests
    /\ response = NoResponse
    /\ responses = 0
    /\ files = InitialFiles
    /\ nUpload = 0
    /\ nPrompt = 0
    /\ nDownload = 0
    /\ uploadedName = Null
    /\ promptImage = Null
    /\ promptId = Null
    /\ callErr = NoCall
    /\ wpc = "idle"
    /\ timeout = 0
    /\ promptIdArg = Null
    /\ PollIdle
    /\ OtherIdle

NextImage == PostUpload \/ ResizeStored

SpecImage == InitImage /\ [][NextImage]_vars

\* ------------------------------------------------ POST /watermark, addWatermark
TextWatermarks == {"", "demo"}
QrContents == {"", "https://example.org"}
WatermarkRequests ==
    {[NoRequest EXCEPT !.route = "watermark", !.imageUrl = u, !.localPath = l,
                       !.textWatermark = t, !.qrContent = q] :
        u \in ImageUrls, l \in LocalPaths, t \in TextWatermarks, q \in QrContents}
DownloadedImage == <<"img", 640, 480, 3>>

\* Mutant: the early return is gone.
NoWatermark_Never(text, qr) == FALSE

\* imageProcessor.ts:44 and generate.ts:226: if (!textWatermark && !qrContent)
NoWatermark(text, qr) == text = "" /\ qr = ""

\* imageProcessor.ts:35-108 addWatermark; len is the byte length of the composited PNG.
addWatermark(buf, text, qr, len) ==
    IF NoWatermark(text, qr) THEN buf
    ELSE IF ~IsImage(buf) THEN SharpError
    ELSE <<"img", buf[2], buf[3], len>>

\* generate.ts:233-242: the bytes POST /watermark reads from a file.
SourceBytes(r) ==
    LET path == IF r.localPath # "" /\ ExistsSync(r.localPath) THEN r.localPath ELSE r.imageUrl
    IN  (CHOOSE f \in FilesAtPath(path) : TRUE).bytes

\* generate.ts:222-270: POST /watermark.
PostWatermark ==
    /\ rpc = "received" /\ req.route = "watermark"
    /\ \E io \in IoOutcomes, len \in EncodedLengths :
         IF NoWatermark(req.textWatermark, req.qrContent)
         THEN /\ Respond([OkResponse(req.imageUrl, FALSE) EXCEPT !.localPath = req.localPath])
              /\ UNCHANGED <<files, nDownload, nRead, diskRead>>
         ELSE LET src == ImageSource(req) IN
              IF src = "none"
              THEN /\ Respond(ErrorResponse(400, MsgCannotRead))
                   /\ UNCHANGED <<files, nDownload, nRead, diskRead>>
              ELSE /\ nDownload' = nDownload + (IF src = "download" THEN 1 ELSE 0)
                   /\ nRead' = nRead + (IF src = "download" THEN 0 ELSE 1)
                   /\ diskRead' = IF src = "download" THEN diskRead
                                  ELSE diskRead \cup {ReadPath(req)}
                   /\ IF src = "enoent" \/ io = "eio"
                      THEN /\ Respond(ErrorResponse(500, MsgWatermarkError))  \* catch
                           /\ UNCHANGED files
                      ELSE LET imageBuffer == IF src = "file" THEN SourceBytes(req)
                                              ELSE DownloadedImage
                               watermarkedBuffer ==
                                   addWatermark(imageBuffer, req.textWatermark, req.qrContent, len)
                           IN  IF watermarkedBuffer = SharpError
                               THEN /\ Respond(ErrorResponse(500, MsgWatermarkError))  \* catch
                                    /\ UNCHANGED files
                               ELSE /\ files' = files \cup {[name |-> "watermarked_1.png",
                                                             bytes |-> watermarkedBuffer]}
                                    /\ Respond(OkResponse("watermarked_1.png", FALSE))
    /\ UNCHANGED <<nUpload, nPrompt, uploadedName, promptImage, promptId, callErr, req>>
    /\ UNCHANGED <<pollVars, resizedAgain, watermarked, seedVars, authVars, concVars,
                   upstream, pageVars, composites>>

\* imageProcessor.ts:35-108: addWatermark called directly on the bytes of a.png with
\* the options of the request.
AddWatermarkCall ==
    /\ watermarked = NullBuffer
    /\ \E len \in EncodedLengths :
         watermarked' = addWatermark(ExistingFile.bytes, req.textWatermark, req.qrContent, len)
    /\ UNCHANGED <<pollVars, routeVars, resizedAgain, nRead, seedVars, authVars, concVars, moreVars>>

InitWatermark ==
    /\ rpc = "received"
    /\ req \in WatermarkRequests
    /\ response = NoResponse
    /\ responses = 0
    /\ files = InitialFiles
    /\ nUpload = 0
    /\ nPrompt = 0
    /\ nDownload = 0
    /\ uploadedName = Null
    /\ promptImage = Null
    /\ promptId = Null
    /\ callErr = NoCall
    /\ wpc = "idle"
    /\ timeout = 0
    /\ promptIdArg = Null
    /\ PollIdle
    /\ OtherIdle

NextWatermark == PostWatermark \/ AddWatermarkCall

SpecWatermark == InitWatermark /\ [][NextWatermark]_vars

\* ------------------------------------------------ the overlays of addWatermark
Padding == 20               \* imageProcessor.ts:53
\* imageProcessor.ts:58: qrSize = Math.min(120, Math.floor(width * 0.15))
QrSize(width) == Min(120, (width * 15) \div 100)
\* imageProcessor.ts:80: fontSize = Math.max(16, Math.floor(width * 0.025))
FontSize(width) == Max(16, (width * 25) \div 1000)
\* imageProcessor.ts:82: textHeight = fontSize + 10
TextHeight(width) == FontSize(width) + 10
\* imageProcessor.ts:81, 85, 103: Math.ceil(textWidth + 20) with textWidth =
\* textWatermark.length * fontSize * 0.6: the width of the text box.  (The second
\* copy of the function, lines 216-226, counts a full-width character as 1 instead
\* of 0.6; for the texts tried, which have none, both give this value.)
TextBoxWidth(width, text) == (Len(text) * FontSize(width) * 6 + 200 + 9) \div 10
\* imageProcessor.ts:68-73: the overlay of the QR code (a square of qrSize).
QrOverlay(width, height) ==
    [kind |-> "qr", top |-> height - QrSize(width) - Padding,
     left |-> width - QrSize(width) - Padding, w |-> QrSize(width), h |-> QrSize(width)]
\* imageProcessor.ts:99-104: the overlay of the text box above currentBottom.
TextOverlay(width, height, text, currentBottom) ==
    [kind |-> "text", top |-> height - TextHeight(width) - currentBottom,
     left |-> width - TextBoxWidth(width, text) - Padding,
     w |-> TextBoxWidth(width, text), h |-> TextHeight(width)]
\* imageProcessor.ts:52-105: the list composites of addWatermark for an image of
\* width x height.
Composites(width, height, text, qr) ==
    LET currentBottom == IF qr # "" THEN Padding + QrSize(width) + 10 ELSE Padding
    IN  (IF qr # "" THEN <<QrOverlay(width, height)>> ELSE <<>>)
        \o (IF text # "" THEN <<TextOverlay(width, height, text, currentBottom)>> ELSE <<>>)

\* Image sizes and watermark texts tried (the last text has 60 characters).
OverlayWidths == {20, 100, 512, 800, 2560}
OverlayHeights == {20, 100, 512, 600, 1920}
OverlayTexts == {"", "demo", "cartoon studio grand opening - visit us at example.org/promo"}
OverlayRequests ==
    {[NoRequest EXCEPT !.textWatermark = t, !.qrContent = q] :
        t \in OverlayTexts, q \in QrContents}

\* imageProcessor.ts:35-107: addWatermark is called with the options of req on an
\* image of one of the sizes; the overlays it gives to image.composite are recorded.
CompositeCall ==
    /\ composites = NoComposites
    /\ ~NoWatermark(req.textWatermark, req.qrContent)
    /\ \E width \in OverlayWidths, height \in OverlayHeights :
         composites' = [width |-> width, height |-> height,
                        overlays |-> Composites(width, height, req.textWatermark, req.qrContent)]
    /\ UNCHANGED <<pollVars, routeVars, imageVars, seedVars, authVars, concVars,
                   upstream, diskRead, pageVars>>

InitOverlay ==
    /\ rpc = "none"
    /\ req \in OverlayRequests
    /\ response = NoResponse
    /\ responses = 0
    /\ files = InitialFiles
    /\ nUpload = 0
    /\ nPrompt = 0
    /\ nDownload = 0
    /\ uploadedName = Null
    /\ promptImage = Null
    /\ promptId = Null
    /\ callErr = NoCall
    /\ wpc = "idle"
    /\ timeout = 0
    /\ promptIdArg = Null
    /\ PollIdle
    /\ OtherIdle

NextOverlay == CompositeCall

SpecOverlay == InitOverlay /\ [][NextOverlay]_vars

\* ------------------------------------------------ the seed field of Home.tsx
\* Values typed into the seed field: Home.tsx:424 setSeed(parseInt(value) || 0).
SeedValues == {0, 7}
\* Home.tsx:212: seed: seedLocked ? seed : Math.floor(Math.random() * 2147483647)
RequestSeed(locked, s, rnd) == IF locked THEN <<s>> ELSE <<rnd>>
\* The page is open and no generation request was made yet.
ClientIdle == rpc = "client"
RouteFresh ==
    /\ response = NoResponse
    /\ responses = 0
    /\ nUpload = 0
    /\ nPrompt = 0
    /\ nDownload = 0
    /\ uploadedName = Null
    /\ promptImage = Null
    /\ promptId = Null
    /\ callErr = NoCall
    /\ wpc = "idle"
    /\ timeout = 0
    /\ promptIdArg = Null
    /\ PollIdle

\* Home.tsx:424: the seed field is edited (it is disabled while locked).
SetSeed ==
    /\ ClientIdle /\ ~seedLocked
    /\ \E v \in SeedValues : seed' = v
    /\ UNCHANGED <<pollVars, routeVars, imageVars, seedLocked, promptSeed, authVars, concVars, moreVars>>

\* Home.tsx:430: the lock button.
ToggleSeedLock ==
    /\ ClientIdle
    /\ seedLocked' = ~seedLocked
    /\ UNCHANGED <<pollVars, routeVars, imageVars, seed, promptSeed, authVars, concVars, moreVars>>

\* Home.tsx:146-148: the dice button.
RandomizeSeed ==
    /\ ClientIdle /\ ~seedLocked
    /\ \E rnd \in RandomSeeds : seed' = rnd
    /\ UNCHANGED <<pollVars, routeVars, imageVars, seedLocked, promptSeed, authVars, concVars, moreVars>>

\* Home.tsx:206-217: handleGenerate posts /api/generate/cartoon for the uploaded
\* image.
HandleGenerate ==
    /\ ClientIdle
    /\ \E rnd \in RandomSeeds :
         req' = [NoRequest EXCEPT !.route = "cartoon", !.imageUrl = "/uploads/a.png",
                                  !.localPath = "uploads/a.png",
                                  !.seed = RequestSeed(seedLocked, seed, rnd)]
    /\ rpc' = "received"
    /\ UNCHANGED <<response, responses, files, nUpload, nPrompt, nDownload,
                   uploadedName, promptImage, promptId, callErr>>
    /\ UNCHANGED <<pollVars, otherVars>>

InitSeed ==
    /\ rpc = "client"
    /\ req = NoRequest
    /\ files = InitialFiles
    /\ RouteFresh
    /\ resizedAgain = NullBuffer
    /\ watermarked = NullBuffer
    /\ nRead = 0
    /\ seed \in RandomSeeds           \* Home.tsx:66
    /\ seedLocked = FALSE             \* Home.tsx:67
    /\ promptSeed = <<>>
    /\ AuthIdle
    /\ ConcIdle
    /\ MoreIdle

NextSeed ==
    \/ SetSeed \/ ToggleSeedLock \/ RandomizeSeed \/ HandleGenerate
    \/ PostCartoon \/ UploadImageReply \/ QueuePromptReply \/ CartoonResult
    \/ WaitForResultCall \/ HistoryReply \/ NextNode \/ ViewReply \/ Sleep

SpecSeed == InitSeed /\ [][NextSeed]_vars

\* ------------------------------------------------ concurrent auth and config requests
InitAuth ==
    /\ users \in {FreshUsers, SettledUsers}
    /\ config = DefaultConfig
    /\ areq \in [Procs -> AuthRequests]
    /\ apc = [p \in Procs |-> "received"]
    /\ auser = [p \in Procs |-> NoUser]
    /\ aresp = [p \in Procs |-> NoAuthResponse]
    /\ nBootstrap = 0
    /\ rpc = "none"
    /\ req = NoRequest
    /\ files = InitialFiles
    /\ RouteFresh
    /\ resizedAgain = NullBuffer
    /\ watermarked = NullBuffer
    /\ nRead = 0
    /\ seed = 0
    /\ seedLocked = FALSE
    /\ promptSeed = <<>>
    /\ ConcIdle
    /\ MoreIdle

NextAuth ==
    \E p \in Procs :
        \/ LoginReceived(p) \/ LoginBootstrap(p) \/ LoginCompared(p)
        \/ RegisterReceived(p) \/ RegisterHashed(p)
        \/ PostConfig(p)

SpecAuth == InitAuth /\ [][NextAuth]_vars

\* ------------------------------------------------ the upstream address of POST /cartoon
\* Addresses a request carries and the config file holds ("" for none / empty).
RequestUrls == {"", "http://gpu:8188", "http://gpu:8188/"}
StoredUrls == {"", DefaultUrl, "http://other:8188/"}
UrlRequests ==
    {[NoRequest EXCEPT !.route = "cartoon", !.localPath = l, !.comfyuiUrl = u] :
        l \in {"", "uploads/a.png"}, u \in RequestUrls}
\* The config requests of an administrator that run beside the cartoon request.
UrlConfigRequests ==
    {[NoAuthRequest EXCEPT !.route = "config", !.token = AdminToken, !.key = k,
                           !.value = "http://other:8188"] : k \in {"", ConfigKey}}

InitUrl ==
    /\ rpc = "received"
    /\ req \in UrlRequests
    /\ response = NoResponse
    /\ responses = 0
    /\ files = InitialFiles
    /\ nUpload = 0
    /\ nPrompt = 0
    /\ nDownload = 0
    /\ uploadedName = Null
    /\ promptImage = Null
    /\ promptId = Null
    /\ callErr = NoCall
    /\ wpc = "idle"
    /\ timeout = 0
    /\ promptIdArg = Null
    /\ PollIdle
    /\ resizedAgain = NullBuffer
    /\ watermarked = NullBuffer
    /\ nRead = 0
    /\ seed = 0
    /\ seedLocked = FALSE
    /\ promptSeed = <<>>
    /\ users = SettledUsers
    /\ config \in [{ConfigKey} -> StoredUrls]
    /\ areq \in [Procs -> UrlConfigRequests]
    /\ apc = [p \in Procs |-> "received"]
    /\ auser = [p \in Procs |-> NoUser]
    /\ aresp = [p \in Procs |-> NoAuthResponse]
    /\ nBootstrap = 0
    /\ ConcIdle
    /\ MoreIdle

NextUrl ==
    \/ PostCartoon \/ UploadImageReply \/ QueuePromptReply
    \/ \E p \in Procs : PostConfig(p)

SpecUrl == InitUrl /\ [][NextUrl]_vars

\* ------------------------------------------------ the paths a request can name
\* Request bodies whose localPath or imageUrl points into and out of the uploads
\* directory.
PathRequests ==
    {[NoRequest EXCEPT !.route = rt, !.imageUrl = u, !.localPath = l, !.textWatermark = "demo"] :
        rt \in {"cartoon", "watermark"},
        u \in {"", "/uploads/a.png", "/uploads/../data/users.xlsx", "http://remote/x.png"},
        l \in {"", "uploads/a.png", "uploads/gone.png", "data/users.xlsx"}}

InitPath ==
    /\ rpc = "received"
    /\ req \in PathRequests
    /\ response = NoResponse
    /\ responses = 0
    /\ files = InitialFiles
    /\ nUpload = 0
    /\ nPrompt = 0
    /\ nDownload = 0
    /\ uploadedName = Null
    /\ promptImage = Null
    /\ promptId = Null
    /\ callErr = NoCall
    /\ wpc = "idle"
    /\ timeout = 0
    /\ promptIdArg = Null
    /\ PollIdle
    /\ OtherIdle

NextPath == PostCartoon \/ PostWatermark \/ UploadImageReply \/ QueuePromptReply

SpecPath == InitPath /\ [][NextPath]_vars

\* ------------------------------------------------ handleGenerate of Home.tsx
UploadEnd == 15             \* Home.tsx:52 PROGRESS_STEPS.UPLOAD.end
GenerateStart == 30         \* Home.tsx:55 PROGRESS_STEPS.GENERATE.start
GenerateEnd == 85           \* Home.tsx:55 PROGRESS_STEPS.GENERATE.end
WatermarkEnd == 95          \* Home.tsx:56 PROGRESS_STEPS.WATERMARK.end
Runs == 1..MaxRuns
\* What a fetch of the page gives: a success response, a non-success response, or a
\* rejection (network error).
FetchOutcomes == {"ok", "notok", "throw"}
InFlight == {r \in Runs : hpc[r] \notin {"none", "ended"}}

\* Home.tsx:477: disabled={!inputImage || isGenerating} (an image is selected).
ButtonEnabled(generating) == ~generating

\* Home.tsx:250-254: the finally block of run r.
RunEnds(r) ==
    /\ hpc' = [hpc EXCEPT ![r] = "ended"]
    /\ isGenerating' = FALSE
    /\ progress' = 0

PageUnchanged == UNCHANGED <<pollVars, routeVars, imageVars, seedVars, authVars, concVars,
                             upstream, diskRead, composites>>

\* Home.tsx:167-183: the generate button is clicked: the run starts, the progress is
\* animated to the end of the upload step and /api/generate/upload is fetched.
ClickGenerate ==
    /\ nRuns < MaxRuns
    /\ ButtonEnabled(isGenerating)
    /\ nRuns' = nRuns + 1
    /\ hpc' = [hpc EXCEPT ![nRuns + 1] = "upload"]
    /\ isGenerating' = TRUE
    /\ progress' = UploadEnd
    /\ UNCHANGED <<timers, currentProgress>>
    /\ PageUnchanged

\* Home.tsx:179-217: the upload fetch settles; on success the progress timer is set
\* and /api/generate/cartoon is fetched.
UploadFetched(r) ==
    /\ hpc[r] = "upload"
    /\ \E o \in FetchOutcomes :
         IF o = "ok"
         THEN /\ hpc' = [hpc EXCEPT ![r] = "cartoon"]
              /\ progress' = GenerateStart
              /\ timers' = timers \cup {r}                          \* line 200 setInterval
              /\ currentProgress' = [currentProgress EXCEPT ![r] = 2 * GenerateStart]
              /\ UNCHANGED isGenerating
         ELSE /\ RunEnds(r)                                         \* lines 184-187, catch
              /\ UNCHANGED <<timers, currentProgress>>
    /\ UNCHANGED nRuns
    /\ PageUnchanged

\* Home.tsx:200-205: the callback of the progress timer of run r fires (while it
\* still changes the progress).
ProgressTick(r) ==
    /\ r \in timers
    /\ currentProgress[r] < 2 * (GenerateEnd - 5)
    /\ currentProgress[r] < 2 * GenerateStart + MaxTicks
    /\ currentProgress' = [currentProgress EXCEPT ![r] = @ + 1]
    /\ progress' = Round(currentProgress'[r], 2)
    /\ UNCHANGED <<hpc, isGenerating, timers, nRuns>>
    /\ PageUnchanged

\* Home.tsx:206-241: the cartoon fetch settles.  clearInterval (line 218) runs when
\* the fetch resolved, not when it rejected.
CartoonFetched(r) ==
    /\ hpc[r] = "cartoon"
    /\ \E o \in FetchOutcomes, wm \in BOOLEAN :
         /\ timers' = IF o = "throw" THEN timers ELSE timers \ {r}
         /\ IF o = "ok" /\ wm                      \* line 228: textWatermark || qrContent
            THEN /\ hpc' = [hpc EXCEPT ![r] = "watermark"]
                 /\ progress' = WatermarkEnd
                 /\ UNCHANGED isGenerating
            ELSE RunEnds(r)                        \* lines 219-222 and catch, or 242-254
    /\ UNCHANGED <<currentProgress, nRuns>>
    /\ PageUnchanged

\* Home.tsx:231-254: the watermark fetch settles; the run finishes on every outcome.
WatermarkFetched(r) ==
    /\ hpc[r] = "watermark"
    /\ RunEnds(r)
    /\ UNCHANGED <<timers, currentProgress, nRuns>>
    /\ PageUnchanged

InitPage ==
    /\ hpc = [r \in Runs |-> "none"]
    /\ isGenerating = FALSE             \* Home.tsx:72
    /\ progress = 0                     \* Home.tsx:73
    /\ timers = {}
    /\ currentProgress = [r \in Runs |-> 0]
    /\ nRuns = 0
    /\ rpc = "none"
    /\ req = NoRequest
    /\ files = InitialFiles
    /\ RouteFresh
    /\ resizedAgain = NullBuffer
    /\ watermarked = NullBuffer
    /\ nRead = 0
    /\ seed = 0
    /\ seedLocked = FALSE
    /\ promptSeed = <<>>
    /\ AuthIdle
    /\ ConcIdle
    /\ ServiceIdle

NextPage ==
    \/ ClickGenerate
    \/ \E r \in Runs :
          \/ UploadFetched(r) \/ ProgressTick(r) \/ CartoonFetched(r) \/ WatermarkFetched(r)

SpecPage == InitPage /\ [][NextPage]_vars

\* ------------------------------------------------ concurrent generate requests
\* Mutant: the generated id is left out of the file name.
GeneratedName_NoId(prefix, p) == prefix \o ".png"

\* generate.ts:74, 199, 253: `upload_${nanoid()}.png`, `cartoon_${nanoid()}.png`,
\* `watermarked_${nanoid()}.png`: the id generated for request p is p (generated ids
\* are distinct).
GeneratedName(prefix, p) == prefix \o ToString(p) \o ".png"

\* fs.writeFileSync(path, bytes) on the directory disk: the file is created or replaced.
WriteFile(disk, name, bytes) ==
    {f \in disk : f.name # name} \cup {[name |-> name, bytes |-> bytes]}

\* The file of the directory disk that a path or an /uploads/ URL names (path.basename).
UploadsUrlOf(name) == "/uploads/" \o name
FileAt(disk, path) == {f \in disk : path \in {LocalPathOf(f.name), UploadsUrlOf(f.name)}}
ExistsOn(disk, path) == FileAt(disk, path) # {}
StartsWithUploadsOn(disk, url) ==
    StartsWithUploads(url) \/ \E f \in disk : url = UploadsUrlOf(f.name)
\* generate.ts:107-123 and 231-245: the image POST /cartoon and POST /watermark read
\* from the directory disk (or download), io being the outcome of the read.
ReadImage(disk, r, io) ==
    LET path == IF r.localPath # "" /\ ExistsOn(disk, r.localPath) THEN r.localPath
                ELSE IF r.imageUrl # "" /\ StartsWithUploadsOn(disk, r.imageUrl) THEN r.imageUrl
                ELSE ""
    IN  IF path # ""
        THEN IF ~ExistsOn(disk, path) THEN [src |-> "enoent", bytes |-> <<>>]
             ELSE IF io = "eio" THEN [src |-> "eio", bytes |-> <<>>]
             ELSE [src |-> "file",
                   bytes |-> (CHOOSE f \in FileAt(disk, path) : TRUE).bytes]
        ELSE IF r.imageUrl # ""
        THEN IF io = "eio" THEN [src |-> "fetchfailed", bytes |-> <<>>]
             ELSE [src |-> "download", bytes |-> DownloadedImage]
        ELSE NoRead

ConcUploadReplies ==
    {[kind |-> "notok", text |-> "Bad Request"], [kind |-> "ok", text |-> "input_x.png"]}
ConcPromptReplies ==
    {[kind |-> "throw", text |-> "ECONNREFUSED"], [kind |-> "ok", text |-> "p1"]}
\* What waitForResult returns: null, or the bytes of an output image.
ConcResults == {NullBuffer, ViewBytes(ImageRef(1, 1))}

Outcome(resp, written) == [response |-> resp, write |-> written]
\* generate.ts:57-94: POST /upload of request p under the environment e.
UploadOutcome(r, e, p) ==
    LET imageBuffer == UploadInput(r)
        resizedBuffer == resizeImage(imageBuffer, e.len)
        name == GeneratedName("upload_", p)
    IN  IF imageBuffer = <<>> THEN Outcome(ErrorResponse(400, MsgProvideImage), {})
        ELSE IF ~IsImage(imageBuffer) THEN Outcome(ErrorResponse(500, MsgUploadError), {})
        ELSE IF resizedBuffer = SharpError \/ e.io2 = "eio"
        THEN Outcome(ErrorResponse(500, MsgUploadError), {})
        ELSE Outcome(OkResponse(name, imageBuffer[4] # resizedBuffer[4]),
                     {[name |-> name, bytes |-> resizedBuffer]})

\* generate.ts:97-219: POST /cartoon of request p that read rd, under the environment e.
CartoonOutcome(r, rd, e, p) ==
    LET name == GeneratedName("cartoon_", p) IN
    IF CartoonMissingInput(r) THEN Outcome(ErrorResponse(400, MsgProvideImage), {})
    ELSE IF rd.src = "none" THEN Outcome(ErrorResponse(400, MsgCannotRead), {})
    ELSE IF rd.src = "enoent" THEN Outcome(CatchResponse(MsgENOENT), {})
    ELSE IF rd.src = "eio" THEN Outcome(CatchResponse(MsgEIO), {})
    ELSE IF rd.src = "fetchfailed" THEN Outcome(CatchResponse(MsgFetchFailed), {})
    ELSE IF CallOutcome(PrefixUpload, e.up).threw
    THEN Outcome(CatchResponse(CallOutcome(PrefixUpload, e.up).error), {})
    ELSE IF CallOutcome(PrefixPrompt, e.pr).threw
    THEN Outcome(CatchResponse(CallOutcome(PrefixPrompt, e.pr).error), {})
    ELSE IF ~SavesResult(e.res) THEN Outcome(ErrorResponse(500, MsgTimeout), {})
    ELSE IF e.io2 = "eio" THEN Outcome(CatchResponse(MsgEIO), {})
    ELSE Outcome(OkResponse(name, FALSE), {[name |-> name, bytes |-> e.res]})

\* generate.ts:222-270: POST /watermark of request p that read rd, under the environment e.
WatermarkOutcome(r, rd, e, p) ==
    LET name == GeneratedName("watermarked_", p) IN
    IF NoWatermark(r.textWatermark, r.qrContent)
    THEN Outcome([OkResponse(r.imageUrl, FALSE) EXCEPT !.localPath = r.localPath], {})
    ELSE IF rd.src = "none" THEN Outcome(ErrorResponse(400, MsgCannotRead), {})
    ELSE IF rd.src \in {"enoent", "eio", "fetchfailed"} \/ e.io2 = "eio"
            \/ addWatermark(rd.bytes, r.textWatermark, r.qrContent, e.len) = SharpError
    THEN Outcome(ErrorResponse(500, MsgWatermarkError), {})
    ELSE Outcome(OkResponse(name, FALSE),
                 {[name |-> name,
                   bytes |-> addWatermark(rd.bytes, r.textWatermark, r.qrContent, e.len)]})

\* The handler of request p reads the directory disk and runs under the environment e.
HandlerOutcome(disk, r, e, p) ==
    CASE r.route = "upload" -> UploadOutcome(r, e, p)
      [] r.route = "cartoon" -> CartoonOutcome(r, ReadImage(disk, r, e.io), e, p)
      [] r.route = "watermark" -> WatermarkOutcome(r, ReadImage(disk, r, e.io), e, p)

\* The handler of request p answers and ends: the file it stores is written.
ConcRespond(p, out) ==
    /\ cresp' = [cresp EXCEPT ![p] = out.response]
    /\ cpc' = [cpc EXCEPT ![p] = "done"]
    /\ files' = IF out.write = {} THEN files
                ELSE LET f == CHOOSE w \in out.write : TRUE
                     IN  WriteFile(files, f.name, f.bytes)

ConcUnchanged ==
    /\ UNCHANGED <<rpc, req, response, responses, nUpload, nPrompt, nDownload,
                   uploadedName, promptImage, promptId, callErr>>
    /\ UNCHANGED <<pollVars, imageVars, seedVars, authVars, moreVars>>

\* generate.ts:59-70: POST /upload up to `await resizeImage`.
ConcUploadReceived(p) ==
    /\ cpc[p] = "received" /\ creq[p].route = "upload"
    /\ IF ~IsImage(UploadInput(creq[p]))
       THEN ConcRespond(p, UploadOutcome(creq[p], cenv[p], p))
       ELSE cpc' = [cpc EXCEPT ![p] = "resizing"] /\ UNCHANGED <<cresp, files>>
    /\ UNCHANGED <<creq, cdisk, cread, cenv>>
    /\ ConcUnchanged

\* generate.ts:70-89: resizeImage resolved; the file is written and the request answered.
ConcUploadResized(p) ==
    /\ cpc[p] = "resizing"
    /\ \E len \in EncodedLengths, io \in IoOutcomes :
         LET e == [cenv[p] EXCEPT !.len = len, !.io2 = io] IN
         /\ cenv' = [cenv EXCEPT ![p] = e]
         /\ ConcRespond(p, UploadOutcome(creq[p], e, p))
    /\ UNCHANGED <<creq, cdisk, cread>>
    /\ ConcUnchanged

\* generate.ts:97-129: POST /cartoon up to `await comfyui.uploadImage`.
ConcCartoonReceived(p) ==
    /\ cpc[p] = "received" /\ creq[p].route = "cartoon"
    /\ \E io \in IoOutcomes :
         LET e == [cenv[p] EXCEPT !.io = io]
             rd == ReadImage(files, creq[p], io)
         IN  /\ cenv' = [cenv EXCEPT ![p] = e]
             /\ cread' = [cread EXCEPT ![p] = rd]
             /\ IF CartoonMissingInput(creq[p]) \/ rd.src \notin {"file", "download"}
                THEN ConcRespond(p, CartoonOutcome(creq[p], rd, e, p))
                ELSE cpc' = [cpc EXCEPT ![p] = "upload"] /\ UNCHANGED <<cresp, files>>
    /\ UNCHANGED <<creq, cdisk>>
    /\ ConcUnchanged

\* generate.ts:129-132: the reply to POST /upload/image arrives.
ConcUploadReply(p) ==
    /\ cpc[p] = "upload"
    /\ \E r \in ConcUploadReplies :
         LET e == [cenv[p] EXCEPT !.up = r] IN
         /\ cenv' = [cenv EXCEPT ![p] = e]
         /\ IF CallOutcome(PrefixUpload, r).threw
            THEN ConcRespond(p, CartoonOutcome(creq[p], cread[p], e, p))
            ELSE cpc' = [cpc EXCEPT ![p] = "prompt"] /\ UNCHANGED <<cresp, files>>
    /\ UNCHANGED <<creq, cdisk, cread>>
    /\ ConcUnchanged

\* generate.ts:132-193: the reply to POST /prompt arrives.
ConcPromptReply(p) ==
    /\ cpc[p] = "prompt"
    /\ \E r \in ConcPromptReplies :
         LET e == [cenv[p] EXCEPT !.pr = r] IN
         /\ cenv' = [cenv EXCEPT ![p] = e]
         /\ IF CallOutcome(PrefixPrompt, r).threw
            THEN ConcRespond(p, CartoonOutcome(creq[p], cread[p], e, p))
            ELSE cpc' = [cpc EXCEPT ![p] = "wait"] /\ UNCHANGED <<cresp, files>>
    /\ UNCHANGED <<creq, cdisk, cread>>
    /\ ConcUnchanged

\* generate.ts:193-212: waitForResult resolved (its polling touches nothing the
\* requests share); the result is saved and the request answered.
ConcCartoonResult(p) ==
    /\ cpc[p] = "wait"
    /\ \E res \in ConcResults, io \in IoOutcomes :
         LET e == [cenv[p] EXCEPT !.res = res, !.io2 = io] IN
         /\ cenv' = [cenv EXCEPT ![p] = e]
         /\ ConcRespond(p, CartoonOutcome(creq[p], cread[p], e, p))
    /\ UNCHANGED <<creq, cdisk, cread>>
    /\ ConcUnchanged

\* generate.ts:222-248: POST /watermark up to `await addWatermark`.
ConcWatermarkReceived(p) ==
    /\ cpc[p] = "received" /\ creq[p].route = "watermark"
    /\ \E io \in IoOutcomes :
         LET e == [cenv[p] EXCEPT !.io = io]
             rd == IF NoWatermark(creq[p].textWatermark, creq[p].qrContent) THEN NoRead
                   ELSE ReadImage(files, creq[p], io)
         IN  /\ cenv' = [cenv EXCEPT ![p] = e]
             /\ cread' = [cread EXCEPT ![p] = rd]
             /\ IF NoWatermark(creq[p].textWatermark, creq[p].qrContent)
                   \/ rd.src \notin {"file", "download"}
                THEN ConcRespond(p, WatermarkOutcome(creq[p], rd, e, p))
                ELSE cpc' = [cpc EXCEPT ![p] = "watermarking"] /\ UNCHANGED <<cresp, files>>
    /\ UNCHANGED <<creq, cdisk>>
    /\ ConcUnchanged

\* generate.ts:248-265: addWatermark resolved; the file is written and the request answered.
ConcWatermarked(p) ==
    /\ cpc[p] = "watermarking"
    /\ \E len \in EncodedLengths, io \in IoOutcomes :
         LET e == [cenv[p] EXCEPT !.len = len, !.io2 = io] IN
         /\ cenv' = [cenv EXCEPT ![p] = e]
         /\ ConcRespond(p, WatermarkOutcome(creq[p], cread[p], e, p))
    /\ UNCHANGED <<creq, cdisk, cread>>
    /\ ConcUnchanged

\* The requests that can arrive when the uploads directory is disk: they name files
\* that exist by then, or that never exist (a generated name cannot be guessed).
ConcRequests(disk) ==
    {[NoRequest EXCEPT !.route = "upload", !.file = f] :
        f \in {<<>>, <<"img", 800, 600, 3>>, <<"img", 4000, 3000, 5>>}}
    \cup {[NoRequest EXCEPT !.route = "cartoon"],
          [NoRequest EXCEPT !.route = "cartoon", !.imageUrl = "/uploads/gone.png"],
          [NoRequest EXCEPT !.route = "cartoon", !.imageUrl = "http://remote/x.png",
                            !.localPath = "uploads/gone.png"]}
    \cup {[NoRequest EXCEPT !.route = "cartoon", !.localPath = LocalPathOf(f.name)] : f \in disk}
    \cup {[NoRequest EXCEPT !.route = "watermark", !.imageUrl = "/uploads/a.png",
                            !.localPath = "uploads/a.png"],
          [NoRequest EXCEPT !.route = "watermark", !.localPath = "uploads/gone.png",
                            !.textWatermark = "demo"]}
    \cup {[NoRequest EXCEPT !.route = "watermark", !.imageUrl = UploadsUrlOf(f.name),
                            !.textWatermark = "demo"] : f \in disk}

\* A request arrives.
ConcArrive(p) ==
    /\ cpc[p] = "none"
    /\ \E r \in ConcRequests(files) : creq' = [creq EXCEPT ![p] = r]
    /\ cpc' = [cpc EXCEPT ![p] = "received"]
    /\ cdisk' = [cdisk EXCEPT ![p] = files]
    /\ UNCHANGED <<cread, cenv, cresp, files>>
    /\ ConcUnchanged

InitConc ==
    /\ creq = [p \in Procs |-> NoRequest]
    /\ cpc = [p \in Procs |-> "none"]
    /\ cdisk = [p \in Procs |-> {}]
    /\ cread = [p \in Procs |-> NoRead]
    /\ cenv = [p \in Procs |-> NoEnv]
    /\ cresp = [p \in Procs |-> NoResponse]
    /\ rpc = "none"
    /\ req = NoRequest
    /\ files = InitialFiles
    /\ RouteFresh
    /\ resizedAgain = NullBuffer
    /\ watermarked = NullBuffer
    /\ nRead = 0
    /\ seed = 0
    /\ seedLocked = FALSE
    /\ promptSeed = <<>>
    /\ AuthIdle
    /\ MoreIdle

NextConc ==
    \E p \in Procs :
        \/ ConcArrive(p)
        \/ ConcUploadReceived(p) \/ ConcUploadResized(p)
        \/ ConcCartoonReceived(p) \/ ConcUploadReply(p) \/ ConcPromptReply(p)
        \/ ConcCartoonResult(p)
        \/ ConcWatermarkReceived(p) \/ ConcWatermarked(p)

SpecConc == InitConc /\ [][NextConc]_vars

\* ===================================================================== claims
TransientFailure == lastKind \in {"throw", "notok"}
Found == wpc = "returned" /\ result # NullBuffer
Exhausted == wpc = "returned" /\ result = NullBuffer

\* C1: waitForResult returns no later than `timeout` milliseconds after it was
\* called, whatever the upstream service does.  (Stated for timeout >= 0.)
C1_ReturnsWithinTimeout ==
    (wpc = "returned" /\ timeout >= 0) => Elapsed <= timeout

\* C2: every call of waitForResult eventually returns (upstream calls complete, the
\* clock advances); it returns Found or Exhausted and never throws; a non-null
\* result comes only after a successful history reply that reported an image whose
\* fetch returned success; null is returned only once elapsed time >= timeout.
C2_Outcome ==
    /\ wpc # "threw"
    /\ Found => /\ lastKind = "outputs"
                /\ outputSeen
                /\ lastView = "ok"
                /\ viewed # <<>>
                /\ result = ViewBytes(viewed[Len(viewed)])
    /\ Exhausted => Elapsed >= timeout
C2_FoundOrExhausted == <>(wpc = "returned") /\ []C2_Outcome
C2_Witness == Found /\ nQueries = 2 /\ ~allInstant

\* C3 (as stated): a history query that fails transiently (thrown error or non-success
\* status) is swallowed and logged, waitForResult does not throw, and while the
\* deadline has not passed the next query for the same id follows one interval later.
C3_Requery ==
    /\ wpc # "threw"
    /\ TransientFailure => wpc \in {"sleep", "history", "returned"}
    /\ (TransientFailure /\ wpc = "history") =>
           (clock = lastReplyAt + pollInterval /\ queriedId = promptIdArg)
    /\ (TransientFailure /\ wpc = "returned") =>
           (result = NullBuffer /\ Elapsed >= timeout /\ clock = lastReplyAt + pollInterval)
C3_TransientSwallowedAndLogged ==
    /\ C3_Requery
    /\ TransientFailure => logged
\* C3 (amended): as above, but only a thrown error is logged; a non-success status
\* is skipped without any log.
C3_TransientNotFatal ==
    /\ C3_Requery
    /\ lastKind = "throw" => logged
    /\ lastKind = "notok" => ~logged
C3_Witness == lastKind = "throw" /\ wpc = "history" /\ nQueries = 3 /\ logged

\* C4: with instantaneous replies and successful image fetches, if the service first
\* reports an output on the N-th query and N < timeout/interval, waitForResult
\* returns Found after exactly N queries, at elapsed time (N-1) intervals (at most
\* N intervals, before the timeout); every earlier reply led to the next query
\* one interval later, and no such N-th query is cut off by an early null.
C4_FoundOnNthQuery ==
    /\ (allInstant /\ allViewOk /\ outputSeen /\ wpc \notin {"nodes", "view"}) =>
           /\ Found
           /\ Elapsed = (nQueries - 1) * pollInterval
           /\ Elapsed <= nQueries * pollInterval
           /\ Elapsed < timeout
    /\ (allInstant /\ ~outputSeen /\ Exhausted) => (nQueries + 1) * pollInterval >= timeout
    /\ (allInstant /\ wpc = "history" /\ nQueries > 1) =>
           (clock = lastReplyAt + pollInterval /\ queriedId = promptIdArg)
C4_Witness ==
    Found /\ allInstant /\ allViewOk /\ nQueries = 3 /\ Elapsed = 2 * pollInterval
          /\ timeout = 3 * pollInterval

\* C5: if the service never reports an output and replies instantly, waitForResult
\* with a timeout T that is a positive multiple of the interval returns null exactly
\* at elapsed time T, after exactly T/interval queries (3 queries for T = 3 s).
C5_ExhaustedAtTimeout ==
    (wpc = "returned" /\ ~outputSeen /\ allInstant
        /\ timeout > 0 /\ timeout % pollInterval = 0) =>
           /\ result = NullBuffer
           /\ Elapsed = timeout
           /\ nQueries * pollInterval = timeout
C5_Witness ==
    Exhausted /\ ~outputSeen /\ allInstant /\ timeout = 3 * pollInterval
              /\ nQueries = 3 /\ Elapsed = 3 * pollInterval

\* The first node, in for-in order, that has images.
FirstNodeWithImages == CHOOSE n \in DOMAIN outputs :
                           outputs[n] > 0 /\ \A m \in 1..(n - 1) : outputs[m] = 0
\* The nodes up to n that have images, in order.
RECURSIVE ImageNodesUpTo(_)
ImageNodesUpTo(n) ==
    IF n = 0 THEN <<>>
    ELSE IF outputs[n] > 0 THEN Append(ImageNodesUpTo(n - 1), n) ELSE ImageNodesUpTo(n - 1)

\* C6 (as stated): the result is exactly the bytes of the first image of the first
\* output node that has images, and nothing else is fetched.
C6_FirstOutputWins ==
    Found => /\ result = ViewBytes(ImageRef(FirstNodeWithImages, 1))
             /\ viewed = <<ImageRef(FirstNodeWithImages, 1)>>
\* C6 (amended): the nodes are tried in order; the result is exactly the bytes of the
\* first image of the first node with images whose fetch returned success; of every
\* earlier node with images the first image was fetched once (without success), and
\* nothing after the returning node is fetched.
C6_FirstFetchedOutputWins ==
    /\ \A i \in DOMAIN viewed : viewed[i][2] = 1
    /\ Found => /\ nodeIdx \in DOMAIN outputs
                /\ outputs[nodeIdx] > 0
                /\ result = ViewBytes(ImageRef(nodeIdx, 1))
                /\ viewed = [i \in 1..Len(ImageNodesUpTo(nodeIdx)) |->
                                 ImageRef(ImageNodesUpTo(nodeIdx)[i], 1)]
C6_Witness == Found /\ Len(viewed) = 2 /\ outputs = <<2, 2>> /\ result = ViewBytes(ImageRef(2, 1))

\* C7: in POST /cartoon the upstream steps happen in the order uploadImage,
\* queuePrompt, waitForResult: the job is submitted only after the upload returned
\* a name, its LoadImage node carries exactly that name, and polling starts only
\* after the submission returned a job id and polls exactly that id.
C7_UploadQueueWaitOrder ==
    /\ rpc = "upload" => (nUpload = 1 /\ nPrompt = 0 /\ nQueries = 0 /\ wpc = "idle")
    /\ rpc = "prompt" => (nUpload = 1 /\ nPrompt = 1 /\ nQueries = 0 /\ wpc = "idle")
    /\ nPrompt > 0 => (nUpload = 1 /\ uploadedName \in UploadNames /\ promptImage = uploadedName)
    /\ wpc # "idle" => (nPrompt = 1 /\ promptId \in PromptIds /\ promptIdArg = promptId)
    /\ nQueries > 0 => (nPrompt = 1 /\ promptId \in PromptIds /\ queriedId = promptId)
C7_Witness ==
    rpc = "wait" /\ nQueries = 2 /\ uploadedName = "input_x (1).png"
                 /\ promptImage = "input_x (1).png" /\ queriedId = "p2"

\* C8: when the upload call or the job submission fails (rejected fetch or
\* non-success status), the call throws an error that carries the upstream status
\* text, POST /cartoon answers with exactly that error text, and no later step runs:
\* no job after a failed upload, no polling after a failed submission, no file written.
C8_UpstreamErrorSurfaced ==
    callErr.stage # "none" =>
        /\ rpc = "done" /\ responses = 1
        /\ response = ErrorResponse(500, callErr.error)
        /\ callErr.reply.kind = "notok" =>
               callErr.error[Len(callErr.error)] = callErr.reply.text
        /\ callErr.reply.kind = "throw" => callErr.error = <<callErr.reply.text>>
        /\ callErr.stage = "upload" => nPrompt = 0
        /\ nQueries = 0 /\ wpc = "idle"
        /\ files = InitialFiles
C8_Witness ==
    callErr.stage = "prompt" /\ callErr.reply = [kind |-> "notok", text |-> "Bad Request"]
        /\ response.error = <<PrefixPrompt, "Bad Request">>

\* C9: POST /cartoon answers with the timeout message exactly when polling ended
\* Exhausted, and a job the upstream service reported as failed is never answered
\* as a timeout.
C9_TimeoutDistinct ==
    /\ (response = ErrorResponse(500, MsgTimeout)) <=>
           (rpc = "done" /\ req.route = "cartoon" /\ Exhausted)
    /\ response.error = MsgTimeout => ~failedSeen

\* C10: POST /cartoon with neither imageUrl nor localPath, and POST /upload with
\* neither a file nor imageBase64, are answered 400 at once: no upstream call, no
\* download, no file written.
NoInput ==
    \/ req.route = "cartoon" /\ req.imageUrl = "" /\ req.localPath = ""
    \/ req.route = "upload" /\ req.file = <<>> /\ req.imageBase64 = <<>>
C10_ValidationFirst ==
    (NoInput /\ rpc # "received") =>
        /\ rpc = "done" /\ responses = 1
        /\ response = ErrorResponse(400, MsgProvideImage)
        /\ files = InitialFiles
        /\ nUpload = 0 /\ nPrompt = 0 /\ nDownload = 0 /\ nQueries = 0 /\ wpc = "idle"
C10_Witness == NoInput /\ rpc = "done" /\ req.route = "upload" /\ response.status = 400

\* --------------------------------------------------------------- resizeImage
InputWidth == UploadInput(req)[2]
InputHeight == UploadInput(req)[3]
Oversize == ~WithinLimit(InputWidth, InputHeight)
Uploaded == rpc = "done" /\ req.route = "upload" /\ response.status = 200
StoredBytes == (CHOOSE f \in StoredUpload : TRUE).bytes

\* C13: for every image whose width and height are both at most 2560, resizeImage
\* returns its input unchanged and POST /upload reports resized = false.
C13_NoResizeWithinLimit ==
    (Uploaded /\ InputWidth <= 2560 /\ InputHeight <= 2560)
        => /\ StoredBytes = UploadInput(req)
           /\ response.resized = FALSE
C13_Witness ==
    Uploaded /\ InputWidth = 2560 /\ InputHeight = 2560 /\ ~response.resized

StoredWidth == StoredBytes[2]
StoredHeight == StoredBytes[3]
LongerSide == Max(InputWidth, InputHeight)
\* n is within 1/2 of d * 2560 / LongerSide.
WithinHalf(n, d) ==
    /\ 2 * n * LongerSide <= 2 * d * 2560 + LongerSide
    /\ 2 * n * LongerSide >= 2 * d * 2560 - LongerSide

IsRounded(n, d) ==
    /\ 2 * n * LongerSide <= 2 * d * 2560 + LongerSide
    /\ 2 * n * LongerSide > 2 * d * 2560 - LongerSide

\* C15: the size resizeImage asks for is (round(width * scale), round(height *
\* scale)) with scale = min(2560/width, 2560/height); 4000x3000 gives 2560x1920.
C15_TargetSize ==
    (Uploaded /\ Oversize)
        => /\ IsRounded(StoredWidth, InputWidth)
           /\ IsRounded(StoredHeight, InputHeight)
           /\ (InputWidth = 4000 /\ InputHeight = 3000)
                  => (StoredWidth = 2560 /\ StoredHeight = 1920)
C15_Witness ==
    /\ Uploaded /\ InputWidth = 4000 /\ InputHeight = 3000
    /\ StoredWidth = 2560 /\ StoredHeight = 1920

\* C17: resizing is idempotent: resizeImage applied to its own output returns that
\* output, dimensions and bytes, for every input size.
C17_ResizeIdempotent ==
    (Uploaded /\ resizedAgain # NullBuffer) => resizedAgain = StoredBytes
C17_Witness ==
    /\ Uploaded /\ Oversize /\ resizedAgain # NullBuffer
    /\ resizedAgain = StoredBytes /\ StoredBytes # UploadInput(req)

\* ---------------------------------------------------------------- watermark
\* C16: without watermark text and without QR content, addWatermark returns its
\* input bytes unchanged, and POST /watermark answers with the imageUrl and the
\* localPath it received, reads no image and writes no file.
C16_NoWatermarkNoChange ==
    (req.textWatermark = "" /\ req.qrContent = "")
        => /\ watermarked # NullBuffer => watermarked = ExistingFile.bytes
           /\ rpc = "done" =>
                /\ response.status = 200
                /\ response.url = req.imageUrl /\ response.localPath = req.localPath
                /\ nRead = 0 /\ nDownload = 0
                /\ files = InitialFiles
C16_Witness ==
    /\ req.textWatermark = "" /\ req.qrContent = "" /\ req.localPath = "uploads/a.png"
    /\ watermarked = ExistingFile.bytes
    /\ rpc = "done" /\ response.localPath = "uploads/a.png" /\ files = InitialFiles

\* ------------------------------------------------------------ job life cycle
\* The phase of the job of a POST /cartoon request: 0 none yet, 1 submitted,
\* 2 polling, 3 polling over, 4 terminal.
JobPhase ==
    IF promptId = Null THEN 0
    ELSE IF rpc = "done" THEN 4
    ELSE IF wpc = "call" THEN 1
    ELSE IF wpc \in {"history", "nodes", "view", "sleep"} THEN 2
    ELSE 3
Completed == response.status = 200 /\ Found /\ [name |-> "cartoon_1.png", bytes |-> result] \in files
TimedOut == response = ErrorResponse(500, MsgTimeout) /\ Exhausted /\ files = InitialFiles
Failed == response.status = 500 /\ response.error # MsgTimeout /\ files = InitialFiles
C11_State ==
    /\ responses <= 1
    /\ (rpc = "done") <=> (responses = 1)
    /\ rpc # "done" => response = NoResponse
    \* the handler is never stuck outside waitForResult
    /\ (rpc # "done" /\ wpc \in {"idle", "returned", "threw"}) => ENABLED Next
    /\ Exhausted => Elapsed >= timeout
    /\ JobPhase = 4 =>
          /\ Completed \/ TimedOut \/ Failed
          /\ ~(Completed /\ TimedOut) /\ ~(Completed /\ Failed) /\ ~(TimedOut /\ Failed)
C11_Step ==
    /\ JobPhase' \in {JobPhase, JobPhase + 1}
    /\ rpc = "done" => UNCHANGED <<rpc, response, responses, files>>
    /\ wpc \in {"returned", "threw"} => UNCHANGED <<wpc, result>>
    /\ (wpc \notin {"returned", "threw"} /\ wpc' \in {"returned", "threw"}) =>
          (result' # NullBuffer \/ clock' - startTime' >= timeout')

\* C11: every job started by POST /cartoon moves only forward through submitted,
\* polling and terminal, and ends in exactly one terminal outcome (completed with a
\* result, failed, or timed out) that is never left or replaced; the handler sends
\* exactly one response per request; a poll produces at most one outcome and ends
\* early only by finding a result, otherwise only by the timeout.
C11_JobForwardOnly == []C11_State /\ [][C11_Step]_vars
C11_Witness ==
    /\ req.route = "cartoon" /\ JobPhase = 4 /\ Completed /\ responses = 1 /\ nQueries >= 2

\* --------------------------------------------------------------------- seed
\* C19: while the seed is locked at s, every generation request submits a job whose
\* sampler seed equals s, for every s the seed field can hold, 0 included.
C19_LockedSeedSubmitted ==
    (seedLocked /\ promptSeed # <<>>) => promptSeed = <<seed>>

\* --------------------------------------------------------------------- auth
LoginOk(p, name) ==
    areq[p].route = "login" /\ areq[p].username = name /\ apc[p] = "done" /\ aresp[p].status = 200

\* C18: the password given at the first admin login becomes the admin password: once
\* a login for admin has succeeded with password p, every later or concurrent login
\* for admin with another password is rejected with 401, in every interleaving, and
\* at most one first-login bootstrap ever takes effect.
C18_FirstLoginSetsPassword ==
    /\ \A p, q \in Procs :
          (LoginOk(p, "admin") /\ LoginOk(q, "admin")) => areq[p].password = areq[q].password
    /\ \A p, q \in Procs :
          (LoginOk(p, "admin") /\ areq[q].route = "login" /\ areq[q].username = "admin"
             /\ areq[q].password \notin {"", areq[p].password} /\ apc[q] = "done")
          => aresp[q].status = 401
    /\ nBootstrap <= 1

\* The bearer token of request p is valid and resolves to an existing administrator.
ByAdmin(p) ==
    /\ areq[p].token.kind = "valid"
    /\ \E i \in 1..Len(users) : users[i].id = areq[p].token.userId /\ users[i].role = "admin"
Guarded(p) == areq[p].route \in {"config", "register"}
C20_State ==
    \A p \in Procs :
        (Guarded(p) /\ apc[p] = "done" /\ ~ByAdmin(p)) => aresp[p].status \in {401, 403}
C20_Step ==
    (config' # config \/ Len(users') # Len(users)) =>
        \E p \in Procs :
            /\ Guarded(p) /\ ByAdmin(p)
            /\ apc[p] # "done" /\ apc'[p] = "done" /\ aresp'[p].status = 200

\* C20: a config value is changed (POST /api/config) and a user is created (POST
\* /api/auth/register) only by a request whose bearer token is valid and resolves to
\* an existing user with role admin; every other request to these routes is answered
\* 401 or 403 and leaves the stores unchanged.
C20_AdminOnly == []C20_State /\ [][C20_Step]_vars
C20_Witness ==
    \E p, q \in Procs :
        /\ areq[p].route = "register" /\ aresp[p].status = 200 /\ Len(users) = 3
        /\ areq[q].route = "config" /\ areq[q].token = ValidToken(2) /\ aresp[q].status = 403
        /\ config = DefaultConfig

\* -------------------------------------------------------------- concurrency
\* What request p answers and stores when it runs alone: on the directory as it was
\* when p arrived, under the environment p met.
Alone(p) == HandlerOutcome(cdisk[p], creq[p], cenv[p], p)
Finished == {p \in Procs : cpc[p] = "done"}
C12_State ==
    /\ \A p \in Finished : cresp[p] = Alone(p).response
    /\ files = InitialFiles \cup UNION {Alone(p).write : p \in Finished}
    /\ \A f, g \in files : f.name = g.name => f = g
    /\ \A p, q \in Finished :
          p # q => \A f \in Alone(p).write, g \in Alone(q).write : f.name # g.name
C12_Step == \A f \in files : f \in files'

\* C12: concurrent requests to /upload, /cartoon and /watermark (generated ids being
\* distinct) are independent: every file written has a name no other request writes,
\* no file is overwritten, and each response is the one the request gets when it
\* runs alone with the same inputs.
C12_Independent == []C12_State /\ [][C12_Step]_vars
C12_Witness ==
    /\ Finished = Procs
    /\ \E p, q \in Procs :
          /\ p # q /\ creq[p].route = "cartoon" /\ creq[q].route = "cartoon"
          /\ cresp[p].status = 200 /\ cresp[q].status = 200
          /\ cresp[p].url # cresp[q].url
          /\ cdisk[p] = InitialFiles /\ cdisk[q] = InitialFiles
    /\ Cardinality(files) >= 3

\* -------------------------------------------------------------- immutability
NamesOf(disk) == {f.name : f \in disk}
\* Request p has arrived and names an input image (POST /cartoon, POST /watermark).
ReadsInput(p) == cpc[p] # "none" /\ creq[p].route \in {"cartoon", "watermark"}
C21_State ==
    /\ \A f, g \in files : f.name = g.name => f = g
    /\ InitialFiles \subseteq files
    \* reading the input of a request again gives what it gave when the request arrived
    /\ \A p \in Procs :
          ReadsInput(p) => ReadImage(files, creq[p], "ok") = ReadImage(cdisk[p], creq[p], "ok")
C21_Step ==
    \/ files' = files
    \/ \E f \in files' : f.name \notin NamesOf(files) /\ files' = files \cup {f}

\* C21: an image file is immutable once produced: /upload, /cartoon and /watermark
\* write only a newly named file and never change or replace an existing file of the
\* uploads directory; the input file of /cartoon and of /watermark has the same
\* bytes after the request as before.
C21_ArtifactsImmutable == []C21_State /\ [][C21_Step]_vars
C21_Witness ==
    \E p, q \in Procs :
        /\ creq[q].route = "upload" /\ cresp[q].status = 200
        /\ creq[p].route = "watermark" /\ creq[p].imageUrl = UploadsUrlOf(cresp[q].url)
        /\ cresp[p].status = 200 /\ cread[p].src = "file"
        /\ ReadImage(files, creq[p], "ok").bytes = cread[p].bytes
        /\ Cardinality(files) = 3

\* ------------------------------------------------------------------ retries
C22_State ==
    /\ nUpload <= 1 /\ nPrompt <= 1
    /\ callErr.stage = "upload" => (nUpload = 1 /\ nPrompt = 0 /\ rpc = "done")
    /\ callErr.stage = "prompt" => (nUpload = 1 /\ nPrompt = 1 /\ rpc = "done")
C22_Step ==
    /\ nUpload' \in {nUpload, nUpload + 1}
    /\ nPrompt' \in {nPrompt, nPrompt + 1}
    /\ nQueries' \in {nQueries, nQueries + 1}
    \* the first query follows the call at once, every later one a wait of one interval
    /\ (nQueries = 0 /\ nQueries' = 1) => clock' = clock
    /\ (nQueries >= 1 /\ nQueries' = nQueries + 1) => clock' - clock = pollInterval

\* C22: nothing but the status query is retried: within one POST /cartoon request
\* uploadImage is invoked at most once and queuePrompt at most once, whatever their
\* outcome, and the wait before every history query after the first is the same
\* fixed interval (it never grows).
C22_OnlyPollingRetried == []C22_State /\ [][C22_Step]_vars
C22_Witness ==
    /\ req.route = "cartoon" /\ rpc = "wait" /\ wpc = "history"
    /\ nUpload = 1 /\ nPrompt = 1 /\ nQueries = 4 /\ clock = 3 * pollInterval
    /\ lastKind = "throw"

\* ------------------------------------------------------------ upstream address
\* The address the precedence rule gives for the request and the stored value.
ByPrecedence(requested, stored) ==
    CASE requested # "" -> requested
      [] requested = "" /\ stored # "" -> stored
      [] OTHER -> "http://127.0.0.1:8188"
\* A config request is being answered in this step.
ConfigAnswered == \E p \in Procs : areq[p].route = "config" /\ apc[p] # "done" /\ apc'[p] = "done"
C23_Step ==
    /\ upstream' # upstream =>
          /\ rpc = "received" /\ rpc' = "upload" /\ upstream = ""
          /\ upstream' = NormalizeUrl(ByPrecedence(req.comfyuiUrl, config[ConfigKey]))
          /\ config' = config
    /\ config' # config => ConfigAnswered
C23_State ==
    /\ rpc \in {"upload", "prompt", "wait"} => upstream # ""
    /\ (rpc = "done" /\ nUpload = 0) => upstream = ""

\* C23: the upstream address POST /cartoon talks to is the request's comfyuiUrl when
\* it is non-empty, otherwise the stored config value 'comfyuiUrl' when it is
\* non-empty, otherwise http://127.0.0.1:8188 (one trailing slash dropped); the
\* request never changes the stored config value, only POST /api/config does.
C23_UrlPrecedence == []C23_State /\ [][C23_Step]_vars
C23_Witness ==
    /\ rpc = "prompt" /\ req.comfyuiUrl = "http://gpu:8188/" /\ upstream = "http://gpu:8188"
    /\ config[ConfigKey] = "http://other:8188"
    /\ \E p \in Procs : aresp[p].status = 200

\* ---------------------------------------------------------------- usernames
\* C24: usernames stay unique: after any interleaving of POST /register requests
\* (two concurrent requests with the same username included) the user store holds
\* at most one user per username, and every user id is unique.
C24_UsernamesUnique ==
    \A i, j \in 1..Len(users) :
        i # j => (users[i].username # users[j].username /\ users[i].id # users[j].id)

\* --------------------------------------------------------- path confinement
\* The paths inside the uploads directory.
InUploads(path) == \E n \in {"a.png", "gone.png", "users.xlsx"} : path = LocalPathOf(n)

\* C25: every file POST /cartoon or POST /watermark reads from the local disk lies
\* inside the uploads directory, for every request body (every value of localPath
\* and imageUrl).
C25_ReadsInsideUploads == \A path \in diskRead : InUploads(path)

\* ------------------------------------------------------------ handleGenerate
\* C26: when handleGenerate has finished on any path (success, an error response
\* of upload or generation, a thrown network error of any of its requests),
\* isGenerating is false, progress is 0 and the progress timer of the run has been
\* cleared, so that no progress update happens after the run ended; and at most one
\* generation run is in flight at a time.
C26_RunCleanup ==
    /\ Cardinality(InFlight) <= 1
    /\ InFlight = {} => (~isGenerating /\ progress = 0)
    /\ \A r \in Runs : hpc[r] = "ended" => r \notin timers

\* ------------------------------------------------------- one sleep per query
C27_Step ==
    \* a query after the first is issued by the loop head right after a sleep of one interval
    /\ (nQueries >= 1 /\ nQueries' = nQueries + 1) =>
          (wpc = "sleep" /\ wpc' = "history" /\ clock' = clock + pollInterval)
    \* a sleep is entered only from handling a reply, and is followed by the loop head
    /\ (wpc # "sleep" /\ wpc' = "sleep") => wpc \in {"history", "nodes", "view"}
    /\ wpc = "sleep" => wpc' \in {"history", "returned"}
    \* handling a reply issues no query
    /\ wpc \in {"history", "nodes", "view"} => nQueries' = nQueries
C27_State ==
    /\ nQueries > 0 => (nQueries - 1) * pollInterval < timeout
    /\ timeout <= 0 => nQueries = 0

\* C27: between two consecutive history queries of one waitForResult call exactly
\* one sleep of one poll interval occurs, on every path (non-success status, missing
\* outputs, outputs without images, failed image fetch, thrown error), so that one
\* call issues at most ceil(timeout / interval) history queries.
C27_OneSleepPerQuery == []C27_State /\ [][C27_Step]_vars
C27_Witness ==
    /\ wpc = "history" /\ nQueries = 3 /\ timeout = 5 * HalfInterval
    /\ lastKind = "outputs" /\ outputSeen /\ ~allViewOk /\ clock = 2 * pollInterval

\* ------------------------------------------------------------ timeout <= 0
\* C28: waitForResult with timeout <= 0 returns null at once without issuing any
\* upstream request, and with a timeout > 0 it issues at least one history query
\* before it can return null.
C28_NoQueryWithoutTime ==
    /\ timeout <= 0 =>
          /\ wpc \in {"call", "returned"}
          /\ wpc = "call" => ENABLED WaitForResultCall
          /\ nQueries = 0 /\ queriedId = Null /\ viewed = <<>> /\ lastKind = Null
          /\ wpc = "returned" => (result = NullBuffer /\ clock = startTime)
    /\ (timeout > 0 /\ wpc # "call") => nQueries >= 1
    /\ (timeout > 0 /\ Exhausted) => (nQueries >= 1 /\ lastKind # Null)
C28_Witness == timeout = 0 /\ Exhausted /\ nQueries = 0 /\ clock = 0

\* ------------------------------------------------------------- target range
\* The size resizeImage asked sharp for.
TargetWidth == ResizeTarget(InputWidth, InputHeight)[1]
TargetHeight == ResizeTarget(InputWidth, InputHeight)[2]

\* C29: for every image with a dimension above 2560, of any aspect ratio, both
\* target dimensions resizeImage computes are integers in 1..2560: the resize never
\* asks for a zero-sized or an oversize image.
C29_TargetInRange ==
    (rpc = "done" /\ req.route = "upload" /\ Oversize)
        => (TargetWidth \in 1..2560 /\ TargetHeight \in 1..2560)

\* ----------------------------------------------------------------- overlays
\* The overlay lies inside the image, clear of the padding at the right and bottom.
Inside(o) ==
    /\ o.top >= 0 /\ o.left >= 0
    /\ o.left + o.w <= composites.width - 20
    /\ o.top + o.h <= composites.height - 20

\* C30: for every image size, watermark text and QR content, the overlay positions
\* addWatermark computes keep each overlay inside the image (top >= 0, left >= 0,
\* left + overlay width <= image width - 20, top + overlay height <= image height
\* - 20); when both are present the text box ends exactly 10 pixels above the QR
\* code.
C30_OverlaysInside ==
    /\ \A i \in DOMAIN composites.overlays : Inside(composites.overlays[i])
    /\ Len(composites.overlays) = 2 =>
          composites.overlays[2].top + composites.overlays[2].h
              = composites.overlays[1].top - 10

====
